---- MODULE Spec2Model ----
(***************************************************************************)
(* The KYC verification backend as a state machine: the alert and          *)
(* escalation engine (backend/app/services/spoof_alerting.py), the two     *)
(* frame detectors (liveness_detection.py, deepfake_detection.py) and the  *)
(* session endpoints (backend/app/app.py).                                 *)
(*                                                                         *)
(* Scores are floats in [0,1] in the source; here they are integers in     *)
(* hundredths (0.85 is 85), so every comparison against a decimal literal  *)
(* of the source is exact.  Optional[...] values are sequences: None is    *)
(* <<>> and a present value x is <<x>>.  Python dicts are functions whose  *)
(* DOMAIN is the set of keys present; dict.get(k, d) is Get(dict, k, d).   *)
(***************************************************************************)
EXTENDS Integers, Sequences, FiniteSets, TLC

\* ------------------------------------------------------------------ bounds

\* At most MaxAlerts Alert objects are ever constructed.
MaxAlerts == 3

\* datetime.now() takes the values 0..MaxClock.
MaxClock == 1

\* The history_size the deepfake detector is constructed with.
HistorySize == 3

\* Frames processed in one behaviour: enough to evict from a full history.
MaxFrames == HistorySize + 2

\* Frames uploaded to sessions in one behaviour.
MaxUploads == 3

\* Request-handling threads, session ids and operator ids.
Threads == {"t1", "t2"}

SessionIds == {"s1", "s2"}

Operators == {"op1", "op2"}

\* ------------------------------------------------------------- primitives

None == <<>>

Some(x) == <<x>>

Get(dict, key, default) == IF key \in DOMAIN dict THEN dict[key] ELSE default

\* Python's True counts as 1 and False as 0 under sum().
BoolToInt(b) == IF b THEN 1 ELSE 0

RECURSIVE sum(_)
sum(flags) == IF flags = <<>> THEN 0 ELSE BoolToInt(Head(flags)) + sum(Tail(flags))

EmptyDict == [k \in {} |-> 0]

\* ------------------------------------------------------------ enumerations

AlertSeverity == {"LOW", "MEDIUM", "HIGH", "CRITICAL"}

AlertType ==
    {"DEEPFAKE_DETECTED", "LIVENESS_FAILED", "UNUSUAL_GEOMETRY", "TEXTURE_ANOMALY",
     "BLINK_PATTERN_ANOMALY", "TEMPORAL_INCONSISTENCY", "FACE_NOT_DETECTED",
     "MULTIPLE_FACES"}

\* self.thresholds of SpoofAlertingService.__init__ (hundredths).
thresholds == [deepfake_score |-> 60, liveness_score |-> 50]

\* ------------------------------------------------------ severity classifier

\* The CRITICAL test of determine_alert_severity with the strict comparison
\* of the deepfake score replaced by a non-strict one.
MUT_is_critical(deepfake_score, critical_indicators) ==
    sum(critical_indicators) >= 2 \/ deepfake_score >= 85

is_critical(deepfake_score, critical_indicators) ==
    sum(critical_indicators) >= 2 \/ deepfake_score > 85

\* The HIGH test with the indicator count required lowered to one.
MUT_is_high(deepfake_score, high_indicators) ==
    sum(high_indicators) >= 1 \/ deepfake_score > 75

is_high(deepfake_score, high_indicators) ==
    sum(high_indicators) >= 2 \/ deepfake_score > 75

\* The MEDIUM test with the indicator count required raised to two.
MUT_is_medium(medium_indicators) == sum(medium_indicators) >= 2

is_medium(medium_indicators) == sum(medium_indicators) >= 1

determine_alert_severity(deepfake_score, liveness_score, indicators) ==
    LET critical_indicators ==
            << deepfake_score > 85,
               liveness_score < 20,
               Get(indicators, "blink_pattern_anomaly", 0) > 80,
               Get(indicators, "texture_anomaly", 0) > 90,
               Get(indicators, "face_not_detected", FALSE) >>
        high_indicators ==
            << deepfake_score > 70,
               liveness_score < 35,
               Get(indicators, "texture_anomaly", 0) > 70,
               Get(indicators, "geometry_inconsistency", 0) > 80 >>
        medium_indicators ==
            << deepfake_score > 55,
               liveness_score < 50,
               Get(indicators, "temporal_anomaly", 0) > 60 >>
    IN  IF is_critical(deepfake_score, critical_indicators) THEN "CRITICAL"
        ELSE IF is_high(deepfake_score, high_indicators) THEN "HIGH"
        ELSE IF is_medium(medium_indicators) THEN "MEDIUM"
        ELSE "LOW"

\* --------------------------------------------------------- escalation policy

\* _initialize_escalation_policies: the channels of each severity, in order,
\* and the "page" flag of the CRITICAL entry (recipients, delays and phone
\* numbers are payload no step of the dispatch branches on).
escalation_policies ==
    [sev \in AlertSeverity |->
        CASE sev = "LOW"      -> [channels |-> <<"log">>]
          [] sev = "MEDIUM"   -> [channels |-> <<"log", "email">>]
          [] sev = "HIGH"     -> [channels |-> <<"log", "email", "slack">>]
          [] sev = "CRITICAL" -> [channels |-> <<"log", "email", "slack", "sms">>,
                                  page |-> TRUE]]

\* ------------------------------------------------------------------- state

VARIABLES
    clock,        \* the value datetime.now() returns
    heap,         \* the Alert objects constructed so far; a reference is an index
    alerts,       \* self.alerts: references, in append order
    alert_queue,  \* self.alert_queue: references, FIFO
    pc,           \* per request thread: position in its current call
    cpc,          \* per request thread: position inside create_alert
    op,           \* per request thread: the call it runs (or ran last) and its arguments
    frame,        \* per request thread: the locals of create_alert
    result,       \* per request thread: the value its call returns
    ack_result,   \* the last acknowledge_alert call: the value it returned and the
                  \* status the alert it matched had when it was called
    worker,       \* the alert processor thread: position, alert, policy channels,
                  \* and self.database_path as the thread reads it
    dispatched,   \* channel attempts made by the worker, in order:
                  \* <<alert, channel, whether the handler raised>>
    sev_call,     \* a direct call of determine_alert_severity: arguments, return value
    liveness_detector,  \* the LivenessDetector of app.py: prev_frame_landmarks
    deepfake_detector,  \* the DeepfakeDetector of app.py: its three history buffers
    active_sessions,    \* app.py active_sessions: session id -> session
    analysis,     \* the results of the last frame processed, and for each history
                  \* buffer every value ever appended to it
    isolated      \* per session id: detectors that process the frames of that
                  \* session only, and the results they give

\* The state of the detectors and of the session endpoints.
appVars == << liveness_detector, deepfake_detector, active_sessions, analysis, isolated >>

vars ==
    << clock, heap, alerts, alert_queue, pc, cpc, op, frame, result, ack_result,
       worker, dispatched, sev_call, liveness_detector, deepfake_detector,
       active_sessions, analysis, isolated >>

\* LivenessDetector.__init__: no previous frame (challenge_history,
\* blink_counter and eye_closed_frames are never read).
LivenessDetector(use_mediapipe) ==
    [use_mediapipe |-> use_mediapipe, prev_frame_landmarks |-> None,
     challenge_history |-> <<>>, blink_counter |-> 0, eye_closed_frames |-> 0]

\* DeepfakeDetector.__init__: empty histories (eye_gaze_history is never
\* appended to).
DeepfakeDetector(history_size, use_mediapipe) ==
    [history_size |-> history_size, use_mediapipe |-> use_mediapipe,
     frame_history |-> <<>>, blink_history |-> <<>>, face_geometry_history |-> <<>>,
     eye_gaze_history |-> <<>>]

NoAnalysis ==
    [liveness |-> None, deepfake |-> None, frames |-> 0,
     appended |-> [blink_history |-> <<>>, face_geometry_history |-> <<>>,
                   frame_history |-> <<>>]]

\* The module-level services and sessions of app.py, lines 41-46, with
\* MediaPipe available or not.
InitApp(mediapipe) ==
    /\ liveness_detector = LivenessDetector(mediapipe)
    /\ deepfake_detector = DeepfakeDetector(HistorySize, mediapipe)
    /\ active_sessions = [sid \in {} |-> 0]
    /\ analysis = NoAnalysis
    /\ isolated = [sid \in {} |-> 0]

AlertIds == SessionIds \X (0 .. MaxClock)

NoFrame == [alert_type |-> "", session_id |-> "", severity |-> "", alert_id |-> None, alert |-> 0]

NoOp == [name |-> "none"]

NoAck == [ret |-> None, prior |-> None]

NoSevCall == [deepfake_score |-> 0, liveness_score |-> 0, indicators |-> EmptyDict, ret |-> None]

IdleWorker == [pc |-> "get", alert |-> 0, channels |-> <<>>, i |-> 0, database_path |-> None]

\* SpoofAlertingService.__init__: empty store, empty queue, worker started.
InitService ==
    /\ clock = 0
    /\ heap = <<>>
    /\ alerts = <<>>
    /\ alert_queue = <<>>
    /\ pc = [t \in Threads |-> "idle"]
    /\ cpc = [t \in Threads |-> "none"]
    /\ op = [t \in Threads |-> NoOp]
    /\ frame = [t \in Threads |-> NoFrame]
    /\ result = [t \in Threads |-> None]
    /\ ack_result = NoAck
    /\ worker = IdleWorker
    /\ dispatched = <<>>
    /\ InitApp(FALSE)

Init ==
    /\ InitService
    /\ sev_call = NoSevCall

\* datetime.now() advances between any two steps, or does not.
Tick ==
    /\ clock < MaxClock
    /\ clock' = clock + 1
    /\ UNCHANGED << heap, alerts, alert_queue, pc, cpc, op, frame, result, ack_result,
                    worker, dispatched, sev_call >>
    /\ UNCHANGED appVars

\* ------------------------------------------------------------ create_alert

\* The Alert dataclass: a new object is "active" with both acknowledgement
\* fields None.  timestamp, user_id, message and details are payload that is
\* set here and that nothing reads or writes afterwards; they are left out.
Alert(alert_id, alert_type, severity, session_id) ==
    [alert_id |-> alert_id, alert_type |-> alert_type, severity |-> severity,
     session_id |-> session_id,
     status |-> "active", acknowledged_at |-> None, acknowledged_by |-> None]

\* dataclasses.asdict: a copy of the object's fields as they are now.
asdict(alert) == heap[alert]

\* Line 130: alert_id = f"{session_id}_{datetime.now().isoformat()}", with the
\* arguments of the call.
CreateFrame(alert_type, session_id, severity) ==
    [alert_type |-> alert_type, session_id |-> session_id, severity |-> severity,
     alert_id |-> Some(<<session_id, clock>>), alert |-> 0]

\* A request thread calls create_alert directly (upload_video_frame does so
\* for a frame without a face) and computes the alert id.
create_alert(t, alert_type, session_id, severity) ==
    /\ pc[t] = "idle"
    /\ op' = [op EXCEPT ![t] = [name |-> "create_alert", alert_type |-> alert_type,
                                session_id |-> session_id, severity |-> severity]]
    /\ pc' = [pc EXCEPT ![t] = "create_alert"]
    /\ cpc' = [cpc EXCEPT ![t] = "put"]
    /\ frame' = [frame EXCEPT ![t] = CreateFrame(alert_type, session_id, severity)]
    /\ UNCHANGED << clock, heap, alerts, alert_queue, result, ack_result, worker,
                    dispatched, sev_call >>
    /\ UNCHANGED appVars

\* Lines 132-143: the Alert object is constructed and put on the queue.
create_alert_put(t) ==
    /\ cpc[t] = "put"
    /\ LET f == frame[t]
           ref == Len(heap) + 1
       IN  /\ heap' = Append(heap, Alert(f.alert_id[1], f.alert_type, f.severity,
                                         f.session_id))
           /\ alert_queue' = Append(alert_queue, ref)
           /\ frame' = [frame EXCEPT ![t].alert = ref]
    /\ cpc' = [cpc EXCEPT ![t] = "append"]
    /\ UNCHANGED << clock, alerts, pc, op, result, ack_result, worker, dispatched,
                    sev_call >>
    /\ UNCHANGED appVars

\* The store after self.alerts.append(alert), with the append dropped.
MUT_store_append(store, alert) == store

store_append(store, alert) == Append(store, alert)

\* Lines 144-148: the object is appended to self.alerts and returned (the
\* returned reference is frame[t].alert); a direct call is over and its locals
\* are gone, a call from evaluate_verification_result resumes there.
create_alert_append(t) ==
    /\ cpc[t] = "append"
    /\ alerts' = store_append(alerts, frame[t].alert)
    /\ cpc' = [cpc EXCEPT ![t] = "none"]
    /\ IF pc[t] = "create_alert"
       THEN /\ pc' = [pc EXCEPT ![t] = "idle"]
            /\ op' = [op EXCEPT ![t] = NoOp]
            /\ frame' = [frame EXCEPT ![t] = NoFrame]
       ELSE UNCHANGED << pc, op, frame >>
    /\ UNCHANGED << clock, heap, alert_queue, result, ack_result, worker, dispatched,
                    sev_call >>
    /\ UNCHANGED appVars

\* get_active_alerts: the stored alerts whose status is "active", as dicts.
IsActive(alert) == heap[alert].status = "active"

get_active_alerts ==
    LET active == SelectSeq(alerts, IsActive)
    IN  [i \in 1 .. Len(active) |-> asdict(active[i])]

\* -------------------------------------------- evaluate_verification_result

\* The conditions of lines 207, 226 and 240 on the arguments o of a call.
deepfake_check(o) ==
    Get(o.deepfake_analysis, "deepfake_score", 0) > thresholds.deepfake_score

\* The liveness check with a threshold of 0: no score fails it.
MUT_liveness_check(o) ==
    Get(o.liveness_analysis, "liveness_score", 0) < 0

liveness_check(o) ==
    Get(o.liveness_analysis, "liveness_score", 0) < thresholds.liveness_score

face_check(o) == ~ Get(o.deepfake_analysis, "face_detected", FALSE)

\* Lines 195-204: the call begins; "status" is not a key of the dict yet
\* (None here).
evaluate_verification_result(t, session_id, deepfake_analysis, liveness_analysis) ==
    /\ pc[t] = "idle"
    /\ op' = [op EXCEPT ![t] =
                [name |-> "evaluate_verification_result", session_id |-> session_id,
                 deepfake_analysis |-> deepfake_analysis,
                 liveness_analysis |-> liveness_analysis]]
    /\ pc' = [pc EXCEPT ![t] = "check_deepfake"]
    /\ result' = [result EXCEPT ![t] =
                    Some([session_id |-> session_id, verified |-> FALSE, alerts |-> <<>>,
                          recommendations |-> <<>>, status |-> None])]
    /\ UNCHANGED << clock, heap, alerts, alert_queue, cpc, frame, ack_result, worker,
                    dispatched, sev_call >>
    /\ UNCHANGED appVars

\* One check of the adjudicator: when its condition holds the thread enters
\* create_alert (and computes the alert id), otherwise it goes on to the next
\* check.
RunCheck(t, here, triggered, alert_type, severity, recording, next) ==
    /\ pc[t] = here
    /\ cpc[t] = "none"
    /\ IF triggered
       THEN /\ pc' = [pc EXCEPT ![t] = recording]
            /\ cpc' = [cpc EXCEPT ![t] = "put"]
            /\ frame' = [frame EXCEPT ![t] =
                            CreateFrame(alert_type, op[t].session_id, severity)]
       ELSE /\ pc' = [pc EXCEPT ![t] = next]
            /\ UNCHANGED << cpc, frame >>
    /\ UNCHANGED << clock, heap, alerts, alert_queue, op, result, ack_result, worker,
                    dispatched, sev_call >>
    /\ UNCHANGED appVars

\* create_alert has returned: asdict(alert) and the recommendation are
\* appended to the result.
RecordAlert(t, here, recommendation, next) ==
    /\ pc[t] = here
    /\ cpc[t] = "none"
    /\ LET r == result[t][1]
       IN  result' = [result EXCEPT ![t] =
                        Some([r EXCEPT !.alerts = Append(@, asdict(frame[t].alert)),
                                       !.recommendations = Append(@, recommendation)])]
    /\ pc' = [pc EXCEPT ![t] = next]
    /\ UNCHANGED << clock, heap, alerts, alert_queue, cpc, op, frame, ack_result, worker,
                    dispatched, sev_call >>
    /\ UNCHANGED appVars

\* The severity of the liveness alert, lowered to that of the face alert.
MUT_liveness_severity == "MEDIUM"

liveness_severity == "HIGH"

\* Lines 207-220.
check_deepfake(t) ==
    RunCheck(t, "check_deepfake", deepfake_check(op[t]), "DEEPFAKE_DETECTED",
             determine_alert_severity(
                 Get(op[t].deepfake_analysis, "deepfake_score", 0),
                 Get(op[t].liveness_analysis, "liveness_score", 0),
                 Get(op[t].deepfake_analysis, "indicators", EmptyDict)),
             "record_deepfake", "check_liveness")

\* Lines 222-223.
record_deepfake(t) ==
    RecordAlert(t, "record_deepfake", "REJECT - Deepfake indicators detected",
                "check_liveness")

\* Lines 226-234.
check_liveness(t) ==
    RunCheck(t, "check_liveness", liveness_check(op[t]), "LIVENESS_FAILED",
             liveness_severity, "record_liveness", "check_face")

\* Lines 236-237.
record_liveness(t) ==
    RecordAlert(t, "record_liveness", "REJECT - Liveness verification failed",
                "check_face")

\* Lines 240-248.
check_face(t) ==
    RunCheck(t, "check_face", face_check(op[t]), "FACE_NOT_DETECTED", "MEDIUM",
             "record_face", "status")

\* Lines 250-251.
record_face(t) ==
    RecordAlert(t, "record_face", "REJECT - Face not detected", "status")

\* The verdict of lines 254-260 with the test of the alert list dropped.
MUT_verdict(r) ==
    [r EXCEPT !.verified = TRUE, !.status = Some("PASSED"),
              !.recommendations = Append(@, "APPROVE - Identity verification passed")]

verdict(r) ==
    IF r.alerts # <<>>
    THEN [r EXCEPT !.verified = FALSE, !.status = Some("FAILED")]
    ELSE [r EXCEPT !.verified = TRUE, !.status = Some("PASSED"),
                   !.recommendations = Append(@, "APPROVE - Identity verification passed")]

\* Lines 254-262: the overall status; the call returns result[t].
determine_status(t) ==
    /\ pc[t] = "status"
    /\ result' = [result EXCEPT ![t] = Some(verdict(result[t][1]))]
    /\ pc' = [pc EXCEPT ![t] = "return"]
    /\ UNCHANGED << clock, heap, alerts, alert_queue, cpc, op, frame, ack_result, worker,
                    dispatched, sev_call >>
    /\ UNCHANGED appVars

\* The caller has taken the returned dict; the locals of the call are gone.
leave(t) ==
    /\ pc[t] = "return"
    /\ pc' = [pc EXCEPT ![t] = "idle"]
    /\ op' = [op EXCEPT ![t] = NoOp]
    /\ frame' = [frame EXCEPT ![t] = NoFrame]
    /\ result' = [result EXCEPT ![t] = None]
    /\ UNCHANGED << clock, heap, alerts, alert_queue, cpc, ack_result, worker, dispatched,
                    sev_call >>
    /\ UNCHANGED appVars

\* -------------------------------------------------------- acknowledge_alert

\* The position in self.alerts of the alert the loop of lines 395-396 stops
\* at, when it only stops at an alert that is still active.
MUT_FirstMatch(alert_id) ==
    LET hits == {i \in 1 .. Len(alerts) :
                    heap[alerts[i]].alert_id = alert_id /\ IsActive(alerts[i])}
    IN  IF hits = {} THEN 0 ELSE CHOOSE i \in hits : \A j \in hits : i <= j

\* The loop of lines 395-396 comparing the session part of the id only.
MUT_FirstMatchSession(alert_id) ==
    LET hits == {i \in 1 .. Len(alerts) : heap[alerts[i]].session_id = alert_id[1]}
    IN  IF hits = {} THEN 0 ELSE CHOOSE i \in hits : \A j \in hits : i <= j

\* The loop of lines 395-396 run from the end of the list: the position of
\* the last alert with this id.
MUT_FirstMatchLatest(alert_id) ==
    LET hits == {i \in 1 .. Len(alerts) : heap[alerts[i]].alert_id = alert_id}
    IN  IF hits = {} THEN 0 ELSE CHOOSE i \in hits : \A j \in hits : i >= j

\* The position in self.alerts of the first alert with this id (0: the loop
\* ends without a match).
FirstMatch(alert_id) ==
    LET hits == {i \in 1 .. Len(alerts) : heap[alerts[i]].alert_id = alert_id}
    IN  IF hits = {} THEN 0 ELSE CHOOSE i \in hits : \A j \in hits : i <= j

\* Lines 397-399 with the status assignment toggling the status.
MUT_Acknowledge(alert, acknowledged_by) ==
    [alert EXCEPT !.status = IF @ = "active" THEN "acknowledged" ELSE "active",
                  !.acknowledged_at = Some(clock),
                  !.acknowledged_by = Some(acknowledged_by)]

\* Lines 397-399: the three assignments to the matching alert.
Acknowledge(alert, acknowledged_by) ==
    [alert EXCEPT !.status = "acknowledged",
                  !.acknowledged_at = Some(clock),
                  !.acknowledged_by = Some(acknowledged_by)]

acknowledge_alert(alert_id, acknowledged_by) ==
    /\ LET i == FirstMatch(alert_id)
       IN  IF i # 0
           THEN /\ heap' = [heap EXCEPT ![alerts[i]] = Acknowledge(@, acknowledged_by)]
                /\ ack_result' = [ret |-> Some(TRUE),
                                  prior |-> Some(heap[alerts[i]].status)]
           ELSE /\ heap' = heap
                /\ ack_result' = [ret |-> Some(FALSE), prior |-> None]
    /\ UNCHANGED << clock, alerts, alert_queue, pc, cpc, op, frame, result, worker,
                    dispatched, sev_call >>
    /\ UNCHANGED appVars

\* ------------------------------------------------------------------ worker

\* The channels the worker goes through for a severity: lines 271-274 and 290.
MUT_policy_channels(severity) ==
    Get(escalation_policies["LOW"], "channels", <<>>)

policy_channels(severity) ==
    LET policy == IF severity \in DOMAIN escalation_policies
                  THEN escalation_policies[severity]
                  ELSE escalation_policies["LOW"]
    IN  Get(policy, "channels", <<>>)

\* queue.Queue.get taking the newest item instead of the oldest.
MUT_queue_get(q) == [item |-> q[Len(q)], rest |-> SubSeq(q, 1, Len(q) - 1)]

\* queue.Queue.get discarding whatever else is queued.
MUT_queue_get_only(q) == [item |-> Head(q), rest |-> <<>>]

\* queue.Queue.get on a non-empty queue: the oldest item, and the queue left.
queue_get(q) == [item |-> Head(q), rest |-> Tail(q)]

\* Where the worker is once the channel loop is over: line 280 calls
\* _log_to_database only if a database path is configured.
after_channels(w) == IF w.database_path # None THEN "log" ELSE "get"

\* Lines 268-277: the worker takes the oldest queued alert and looks up the
\* policy of its severity.
process_alerts_get ==
    /\ worker.pc = "get"
    /\ alert_queue # <<>>
    /\ LET got == queue_get(alert_queue)
           channels == policy_channels(heap[got.item].severity)
       IN  /\ worker' = [worker EXCEPT
                            !.pc = IF channels = <<>> THEN after_channels(worker) ELSE "send",
                            !.alert = got.item, !.channels = channels, !.i = 1]
           /\ alert_queue' = got.rest
    /\ UNCHANGED << clock, heap, alerts, pc, cpc, op, frame, result, ack_result,
                    dispatched, sev_call >>
    /\ UNCHANGED appVars

\* The worker after an iteration of the channel loop, when an exception of a
\* handler ends the loop.
MUT_after_channel(w, raised) ==
    IF raised THEN [w EXCEPT !.pc = after_channels(w)]
    ELSE IF w.i < Len(w.channels) THEN [w EXCEPT !.i = @ + 1]
    ELSE [w EXCEPT !.pc = after_channels(w)]

\* The worker after an iteration of the channel loop: an exception of the
\* handler is caught inside the loop body (lines 304-305), so the loop goes on
\* to the next channel either way.
after_channel(w, raised) ==
    IF w.i < Len(w.channels) THEN [w EXCEPT !.i = @ + 1]
    ELSE [w EXCEPT !.pc = after_channels(w)]

\* Lines 292-305: one iteration of the channel loop of _send_notifications,
\* whose handler raises or does not; after the last channel the worker is
\* back in _process_alerts.
send_notifications(raised) ==
    /\ worker.pc = "send"
    /\ dispatched' = Append(dispatched,
                            << worker.alert, worker.channels[worker.i], raised >>)
    /\ worker' = after_channel(worker, raised)
    /\ UNCHANGED << clock, heap, alerts, alert_queue, pc, cpc, op, frame, result,
                    ack_result, sev_call >>
    /\ UNCHANGED appVars

\* Lines 280-281 and 387-392: _log_to_database catches whatever its body
\* raises, and line 285 whatever else the iteration raises; the worker is back
\* at the queue either way.
log_to_database ==
    /\ worker.pc = "log"
    /\ worker' = [worker EXCEPT !.pc = "get"]
    /\ UNCHANGED << clock, heap, alerts, alert_queue, pc, cpc, op, frame, result,
                    ack_result, dispatched, sev_call >>
    /\ UNCHANGED appVars

\* ------------------------------------------------------------------ frames

\* The state of the alert engine.
alertVars ==
    << clock, heap, alerts, alert_queue, pc, cpc, op, frame, result, ack_result,
       worker, dispatched, sev_call >>

\* A decoded frame, as far as the detectors read it: whether the cascade
\* classifier finds a face; what FaceMesh gives (None: no landmarks; else the
\* eye aspect ratio, the width/height ratio of the face, the centroid of the
\* landmarks and the distance of the lips); its gray level; the raw texture
\* measurements (None: the texture extractor raises); whether the geometry
\* extractor raises.  Ratios and scores are in hundredths, and so are the
\* centroid and the lip distance, which FaceMesh gives in normalised image
\* coordinates (0 to 1 across the image); gray levels are in their own unit.
Frame(face, mesh, gray, texture, fault) ==
    [face |-> face, mesh |-> mesh, gray |-> gray, texture |-> texture, fault |-> fault]

Landmarks(ear, ratio, centroid, mouth) ==
    Some([ear |-> ear, ratio |-> ratio, centroid |-> centroid, mouth |-> mouth])

Texture(laplacian_var, edge_density, smoothness, boundary_artifacts) ==
    Some([laplacian_var |-> laplacian_var, edge_density |-> edge_density,
          smoothness |-> smoothness, boundary_artifacts |-> boundary_artifacts])

\* numpy.clip with the clipping left out.
MUT_clip(x, lo, hi) == x

\* numpy.clip.
clip(x, lo, hi) == IF x < lo THEN lo ELSE IF x > hi THEN hi ELSE x

min(a, b) == IF a <= b THEN a ELSE b

max(a, b) == IF a >= b THEN a ELSE b

Abs(x) == IF x < 0 THEN 0 - x ELSE x

RECURSIVE SeqSum(_)
SeqSum(seq) == IF seq = <<>> THEN 0 ELSE Head(seq) + SeqSum(Tail(seq))

\* ------------------------------------------------------- liveness detector

\* detect_blink, lines 97-138, on the average eye aspect ratio of the
\* landmarks (FaceMesh gives 478 landmarks, so the length test passes).
detect_blink(landmarks) ==
    IF landmarks = None THEN [detected |-> FALSE, confidence |-> 0]
    ELSE LET avg_ear == landmarks[1].ear
             is_blink == avg_ear < 15
             confidence == IF is_blink THEN 100 - avg_ear ELSE 0
         IN  [detected |-> is_blink, confidence |-> min(confidence, 100)]

\* Lines 159 and 189: the thresholds 15.0 and 20.0 on distances between
\* landmark coordinates, in hundredths of the coordinate unit.
MOVEMENT_THRESHOLD == 1500

MOUTH_THRESHOLD == 2000

\* detect_head_movement, lines 140-172: movement_detected, the confidence
\* and the detector afterwards.  When prev_frame_landmarks holds the gray
\* image the motion fallback stored there, the subtraction of the centroids
\* raises, the method returns 0.0 and prev_frame_landmarks stays what it was.
detect_head_movement(det, current_landmarks) ==
    IF current_landmarks = None
    THEN [detected |-> FALSE, confidence |-> 0, reason |-> "no_landmarks", det |-> det]
    ELSE IF det.prev_frame_landmarks = None
    THEN [detected |-> FALSE, confidence |-> 0, reason |-> "no_previous_frame",
          det |-> [det EXCEPT !.prev_frame_landmarks =
                      Some([kind |-> "landmarks", value |-> current_landmarks[1].centroid])]]
    ELSE IF det.prev_frame_landmarks[1].kind # "landmarks"
    THEN [detected |-> FALSE, confidence |-> 0, reason |-> "processing_error", det |-> det]
    ELSE LET displacement ==
                 Abs(current_landmarks[1].centroid - det.prev_frame_landmarks[1].value)
             movement_detected == displacement > MOVEMENT_THRESHOLD
         IN  [detected |-> movement_detected,
              confidence |-> IF movement_detected
                             THEN min((100 * displacement) \div MOVEMENT_THRESHOLD, 100)
                             ELSE 0,
              reason |-> "",
              det |-> [det EXCEPT !.prev_frame_landmarks =
                          Some([kind |-> "landmarks",
                                value |-> current_landmarks[1].centroid])]]

\* detect_mouth_open, lines 174-200.
detect_mouth_open(landmarks) ==
    IF landmarks = None THEN 0
    ELSE LET mouth_distance == landmarks[1].mouth
             mouth_open == mouth_distance > MOUTH_THRESHOLD
             confidence == IF mouth_open
                           THEN min((100 * mouth_distance) \div MOUTH_THRESHOLD, 100) ELSE 0
         IN  min(confidence, 100)

\* detect_motion_in_frame, lines 202-224: 0.2 without a previous frame, 0.1
\* when absdiff raises because prev_frame_landmarks holds landmarks, else the
\* median difference of the gray images over 50, at most 1.
detect_motion_in_frame(det, img) ==
    IF det.prev_frame_landmarks = None
    THEN [confidence |-> 20,
          det |-> [det EXCEPT !.prev_frame_landmarks =
                      Some([kind |-> "gray", value |-> img.gray])]]
    ELSE IF det.prev_frame_landmarks[1].kind # "gray"
    THEN [confidence |-> 10, det |-> det]
    ELSE LET motion_magnitude == Abs(img.gray - det.prev_frame_landmarks[1].value)
         IN  [confidence |-> min((100 * motion_magnitude) \div 50, 100),
              det |-> [det EXCEPT !.prev_frame_landmarks =
                          Some([kind |-> "gray", value |-> img.gray])]]

\* Line 335: the baseline score of a frame with a face and no landmarks.
baseline == 50

\* LivenessDetector.process_frame, lines 281-352, on a decoded frame: the
\* result dict and the detector afterwards.
liveness_process_frame(det, img) ==
    LET landmarks == IF det.use_mediapipe THEN img.mesh ELSE None
        blink == IF landmarks # None THEN detect_blink(landmarks).confidence ELSE 0
        move == IF landmarks # None THEN detect_head_movement(det, landmarks)
                ELSE detect_motion_in_frame(det, img)
        mouth == IF landmarks # None THEN detect_mouth_open(landmarks) ELSE 0
        weighted == (blink * 30 + move.confidence * 40 + mouth * 30) \div 100
        liveness_score == IF landmarks = None /\ img.face
                          THEN max(weighted, baseline) ELSE weighted
    IN  [result |-> [face_detected |-> img.face,
                     liveness_score |-> liveness_score,
                     detections |-> [blink |-> blink, head_movement |-> move.confidence,
                                     mouth_open |-> mouth]],
         det |-> move.det]

\* ------------------------------------------------------- deepfake detector

\* _compute_texture_anomaly_score, lines 254-265.
compute_texture_anomaly_score(laplacian_var, edge_density, smoothness, boundary_artifacts) ==
    LET texture_score ==
            ((100 - clip(laplacian_var \div 10, 0, 100)) * 30
             + (100 - edge_density) * 30
             + smoothness * 20
             + boundary_artifacts * 20) \div 100
    IN  clip(texture_score, 0, 100)

\* analyze_micro_textures, lines 127-183: the anomaly_score of its result,
\* 0.2 when an extractor raises.
analyze_micro_textures(img) ==
    IF img.texture = None THEN 20
    ELSE LET t == img.texture[1]
         IN  compute_texture_anomaly_score(t.laplacian_var, t.edge_density,
                 clip(t.smoothness, 0, 100), clip(t.boundary_artifacts, 0, 100))

\* A history after an append, with the oldest entry kept and the newest
\* dropped when it is over its size.
MUT_push(history, value, history_size) ==
    IF Len(history) + 1 > history_size THEN history ELSE Append(history, value)

\* Lines 289-293, 405-414 and 447-450: append, then pop(0) if the history is
\* longer than history_size.
push(history, value, history_size) ==
    LET appended == Append(history, value)
    IN  IF Len(appended) > history_size THEN Tail(appended) ELSE appended

\* The autocorrelation of a history at lag k, from position i on.
RECURSIVE correlate(_, _, _)
correlate(history, k, i) ==
    IF i + k > Len(history) THEN 0
    ELSE history[i] * history[i + k] + correlate(history, k, i + 1)

\* _detect_blink_pattern_anomaly, lines 325-345: 0 below 20 entries, 1 for a
\* flat history, else the largest normalised autocorrelation at the lags 10
\* to 49, less 0.5, clipped.
detect_blink_pattern_anomaly(blink_history) ==
    IF Len(blink_history) < 20 THEN 0
    ELSE IF \A i \in 1 .. Len(blink_history) : blink_history[i] = blink_history[1] THEN 100
    ELSE LET lags == 10 .. (min(50, Len(blink_history)) - 1)
             energy == correlate(blink_history, 0, 1)
             correlation == {(100 * correlate(blink_history, k, 1)) \div energy : k \in lags}
             periodicity_score == CHOOSE v \in correlation : \A w \in correlation : w <= v
         IN  clip(periodicity_score - 50, 0, 100)

\* The lengths of the closed-eye runs of a history that ended in it, from
\* position i on (lines 357-370).
RECURSIVE blink_durations(_, _, _)
blink_durations(history, i, duration) ==
    IF i > Len(history) THEN <<>>
    ELSE IF history[i] < 15 THEN blink_durations(history, i + 1, duration + 1)
    ELSE IF duration > 0 THEN <<duration>> \o blink_durations(history, i + 1, 0)
    ELSE blink_durations(history, i + 1, 0)

\* _detect_blink_duration_anomaly, lines 347-381.
detect_blink_duration_anomaly(blink_history) ==
    IF Len(blink_history) < 10 THEN 0
    ELSE LET durations == blink_durations(blink_history, 1, 0)
             abnormal_count ==
                 Cardinality({i \in 1 .. Len(durations) :
                                durations[i] < 2 \/ durations[i] > 15})
         IN  IF durations = <<>> THEN 0
             ELSE clip((100 * abnormal_count) \div Len(durations), 0, 100)

\* The variance of a sequence of numbers (numpy.var), rounded down.
var(seq) ==
    LET n == Len(seq)
    IN  (n * SeqSum([i \in 1 .. n |-> seq[i] * seq[i]]) - SeqSum(seq) * SeqSum(seq))
            \div (n * n)

\* _analyze_geometry_consistency, lines 427-441: 0 below 5 entries, else 1
\* less ten times the standard deviation of the width/height ratios, not
\* below 0.  The ratios are in hundredths, so the deviation is 0.1 or more
\* exactly when their variance is 100 or more.
analyze_geometry_consistency(face_geometry_history) ==
    IF Len(face_geometry_history) < 5 THEN 0
    ELSE LET variance == var(face_geometry_history)
             consistency == CHOOSE r \in 0 .. 10 : r * r <= variance /\ variance < (r + 1) * (r + 1)
             anomaly == IF variance >= 100 THEN 0 ELSE max(0, 100 - 10 * consistency)
         IN  clip(anomaly, 0, 100)

\* The temporal anomaly of lines 452-474 on the gray levels of the frame
\* history: 0 below 3 frames, else the variance of the differences of
\* consecutive frames over 1000, clipped.
temporal_anomaly(frame_history) ==
    IF Len(frame_history) < 3 THEN 0
    ELSE LET frame_diffs == [i \in 1 .. Len(frame_history) - 1 |->
                                Abs(frame_history[i + 1] - frame_history[i])]
         IN  IF Len(frame_diffs) > 1
             THEN clip((100 * var(frame_diffs)) \div 1000, 0, 100)
             ELSE 0

NoAppends ==
    [blink_history |-> <<>>, face_geometry_history |-> <<>>, frame_history |-> <<>>]

\* DeepfakeDetector.process_frame, lines 482-592, on a decoded frame: the
\* result dict, the detector afterwards and what was appended to each
\* history.  Without a face nothing is analysed; without landmarks the score
\* is half the texture anomaly plus 0.2; with landmarks the blink, geometry
\* and frame histories are appended to in this order and the score is the
\* weighted sum; an extractor that raises ends the call with the no-face
\* result and the histories as they are by then.
deepfake_process_frame(det, img) ==
    LET landmarks == IF det.use_mediapipe THEN img.mesh ELSE None
        texture == analyze_micro_textures(img)
        blink_history == push(det.blink_history, landmarks[1].ear, det.history_size)
        face_geometry_history ==
            push(det.face_geometry_history, landmarks[1].ratio, det.history_size)
        frame_history == push(det.frame_history, img.gray, det.history_size)
        blink_pattern_anomaly == detect_blink_pattern_anomaly(blink_history)
        geometry_consistency_score == analyze_geometry_consistency(face_geometry_history)
        temporal == temporal_anomaly(frame_history)
    IN  IF ~ img.face
        THEN [result |-> [face_detected |-> FALSE, deepfake_score |-> 0,
                          indicators |-> EmptyDict],
              det |-> det, appended |-> NoAppends]
        ELSE IF landmarks = None
        THEN [result |-> [face_detected |-> TRUE,
                          deepfake_score |-> clip((texture * 50) \div 100 + 20, 0, 100),
                          indicators |-> [k \in {"texture"} |-> texture]],
              det |-> det, appended |-> NoAppends]
        ELSE IF img.fault
        THEN [result |-> [face_detected |-> FALSE, deepfake_score |-> 0,
                          indicators |-> EmptyDict],
              det |-> [det EXCEPT !.blink_history = blink_history],
              appended |-> [NoAppends EXCEPT !.blink_history = <<landmarks[1].ear>>]]
        ELSE [result |->
                 [face_detected |-> TRUE,
                  deepfake_score |->
                      clip((texture * 35 + blink_pattern_anomaly * 25
                            + geometry_consistency_score * 20 + temporal * 20) \div 100,
                           0, 100),
                  indicators |->
                      [k \in {"texture", "blink_pattern_anomaly", "blink_duration_anomaly",
                               "geometry_consistency_score", "temporal_anomaly"} |->
                          CASE k = "texture" -> texture
                            [] k = "blink_pattern_anomaly" -> blink_pattern_anomaly
                            [] k = "blink_duration_anomaly" ->
                                   detect_blink_duration_anomaly(blink_history)
                            [] k = "geometry_consistency_score" -> geometry_consistency_score
                            [] k = "temporal_anomaly" -> temporal]],
              det |-> [det EXCEPT !.blink_history = blink_history,
                                  !.face_geometry_history = face_geometry_history,
                                  !.frame_history = frame_history],
              appended |-> [blink_history |-> <<landmarks[1].ear>>,
                            face_geometry_history |-> <<landmarks[1].ratio>>,
                            frame_history |-> <<img.gray>>]]

\* The results of a frame and everything appended to the histories so far.
Analysed(liveness, deepfake) ==
    [liveness |-> Some(liveness.result), deepfake |-> Some(deepfake.result),
     frames |-> analysis.frames + 1,
     appended |-> [b \in DOMAIN analysis.appended |->
                      analysis.appended[b] \o deepfake.appended[b]]]

\* app.py lines 156-157: a frame goes through both detectors.
analyse_frame(img) ==
    /\ analysis.frames < MaxFrames
    /\ LET liveness == liveness_process_frame(liveness_detector, img)
           deepfake == deepfake_process_frame(deepfake_detector, img)
       IN  /\ liveness_detector' = liveness.det
           /\ deepfake_detector' = deepfake.det
           /\ analysis' = Analysed(liveness, deepfake)
    /\ UNCHANGED << active_sessions, isolated >>
    /\ UNCHANGED alertVars

\* detect_head_movement called on a landmark array: the detector keeps the
\* landmarks, the tuple returned is kept as the analysis of the frame.
head_movement_call(current_landmarks) ==
    /\ analysis.frames < MaxFrames
    /\ LET returned == detect_head_movement(liveness_detector, current_landmarks)
       IN  /\ liveness_detector' = returned.det
           /\ analysis' =
                 [analysis EXCEPT !.frames = @ + 1,
                                  !.liveness = Some([detected |-> returned.detected,
                                                     confidence |-> returned.confidence,
                                                     reason |-> returned.reason])]
    /\ UNCHANGED << deepfake_detector, active_sessions, isolated >>
    /\ UNCHANGED alertVars

\* LivenessDetector.reset, lines 404-409, leaving the previous frame.
MUT_liveness_reset(det) ==
    [det EXCEPT !.challenge_history = <<>>, !.blink_counter = 0, !.eye_closed_frames = 0]

\* LivenessDetector.reset, lines 404-409.
liveness_reset(det) ==
    [det EXCEPT !.prev_frame_landmarks = None, !.challenge_history = <<>>,
                !.blink_counter = 0, !.eye_closed_frames = 0]

\* DeepfakeDetector.reset, lines 628-633.
deepfake_reset(det) ==
    [det EXCEPT !.frame_history = <<>>, !.blink_history = <<>>,
                !.face_geometry_history = <<>>, !.eye_gaze_history = <<>>]

\* A caller t resets the liveness detector.
liveness_detector_reset(t) ==
    /\ pc[t] = "idle"
    /\ liveness_detector' = liveness_reset(liveness_detector)
    /\ op' = [op EXCEPT ![t] = [name |-> "LivenessDetector.reset"]]
    /\ UNCHANGED << deepfake_detector, active_sessions, analysis, isolated >>
    /\ UNCHANGED << clock, heap, alerts, alert_queue, pc, cpc, frame, result, ack_result,
                    worker, dispatched, sev_call >>

\* A caller t resets the deepfake detector.
deepfake_detector_reset(t) ==
    /\ pc[t] = "idle"
    /\ deepfake_detector' = deepfake_reset(deepfake_detector)
    /\ op' = [op EXCEPT ![t] = [name |-> "DeepfakeDetector.reset"]]
    /\ UNCHANGED << liveness_detector, active_sessions, analysis, isolated >>
    /\ UNCHANGED << clock, heap, alerts, alert_queue, pc, cpc, frame, result, ack_result,
                    worker, dispatched, sev_call >>

\* ---------------------------------------------------------------- sessions

\* Lines 67-74: a new session ("frame_analysis" is not a key yet, which
\* session.get reads like an empty list; user_id and created_at are payload).
NewSession ==
    [status |-> "active", video_frames |-> <<>>, frame_analysis |-> <<>>,
     current_challenge |-> None, verification_result |-> None]

\* The session ids a new session can get when uuid4 may return an id in use.
MUT_FreshIds(sessions) == SessionIds

\* Line 65: uuid4 gives an id no session has.
FreshIds(sessions) == SessionIds \ DOMAIN sessions

\* The detectors a session would have to itself, constructed like the shared
\* ones, and the results they gave for its frames.
Isolated ==
    [liveness_detector |-> LivenessDetector(liveness_detector.use_mediapipe),
     deepfake_detector |-> DeepfakeDetector(deepfake_detector.history_size,
                                            deepfake_detector.use_mediapipe),
     frame_analysis |-> <<>>]

\* start_verification_session, lines 55-87.
start_verification_session(session_id) ==
    /\ session_id \in FreshIds(active_sessions)
    /\ active_sessions' =
          [sid \in DOMAIN active_sessions \cup {session_id} |->
              IF sid = session_id THEN NewSession ELSE active_sessions[sid]]
    /\ isolated' =
          [sid \in DOMAIN isolated \cup {session_id} |->
              IF sid = session_id THEN Isolated ELSE isolated[sid]]
    /\ UNCHANGED << liveness_detector, deepfake_detector, analysis >>
    /\ UNCHANGED alertVars

\* send_liveness_challenge, lines 90-127, with a valid challenge type.
send_liveness_challenge(session_id, challenge_type) ==
    /\ session_id \in DOMAIN active_sessions
    /\ active_sessions' =
          [active_sessions EXCEPT ![session_id].current_challenge = Some(challenge_type)]
    /\ UNCHANGED << liveness_detector, deepfake_detector, analysis, isolated >>
    /\ UNCHANGED alertVars

\* What frame_analysis keeps of the two results of a frame (line 163): the
\* keys the aggregator and the response read.
FrameAnalysis(liveness_result, deepfake_result) ==
    [liveness |-> [face_detected |-> liveness_result.face_detected,
                   liveness_score |-> liveness_result.liveness_score],
     deepfake |-> [face_detected |-> deepfake_result.face_detected,
                   deepfake_score |-> deepfake_result.deepfake_score]]

\* upload_video_frame, lines 130-190, with a frame that decodes: the frame
\* is kept in the session, goes through the shared detectors, the results are
\* appended to the session, and for a frame without a face the thread enters
\* create_alert.
upload_video_frame(t, session_id, img) ==
    /\ pc[t] = "idle"
    /\ session_id \in DOMAIN active_sessions
    /\ analysis.frames < MaxUploads
    /\ LET liveness == liveness_process_frame(liveness_detector, img)
           deepfake == deepfake_process_frame(deepfake_detector, img)
           alone == isolated[session_id]
           liveness_alone == liveness_process_frame(alone.liveness_detector, img)
           deepfake_alone == deepfake_process_frame(alone.deepfake_detector, img)
       IN  /\ liveness_detector' = liveness.det
           /\ deepfake_detector' = deepfake.det
           /\ analysis' = Analysed(liveness, deepfake)
           /\ active_sessions' =
                 [active_sessions EXCEPT ![session_id].video_frames = Append(@, img),
                                         ![session_id].frame_analysis =
                     Append(@, FrameAnalysis(liveness.result, deepfake.result))]
           /\ isolated' =
                 [isolated EXCEPT ![session_id] =
                     [liveness_detector |-> liveness_alone.det,
                      deepfake_detector |-> deepfake_alone.det,
                      frame_analysis |->
                          Append(alone.frame_analysis,
                                 FrameAnalysis(liveness_alone.result,
                                               deepfake_alone.result))]]
           /\ IF ~ liveness.result.face_detected
              THEN /\ Len(heap) < MaxAlerts
                   /\ op' = [op EXCEPT ![t] =
                                [name |-> "create_alert",
                                 alert_type |-> "FACE_NOT_DETECTED",
                                 session_id |-> session_id, severity |-> "MEDIUM"]]
                   /\ pc' = [pc EXCEPT ![t] = "create_alert"]
                   /\ cpc' = [cpc EXCEPT ![t] = "put"]
                   /\ frame' = [frame EXCEPT ![t] =
                                   CreateFrame("FACE_NOT_DETECTED", session_id, "MEDIUM")]
              ELSE UNCHANGED << op, pc, cpc, frame >>
    /\ UNCHANGED << clock, heap, alerts, alert_queue, result, ack_result, worker,
                    dispatched, sev_call >>

\* numpy.mean of a non-empty list, rounded down to hundredths.
mean(scores) == SeqSum(scores) \div Len(scores)

\* The frames of a session a detector found a face in.
HasFace(entry, detector) == entry[detector].face_detected

\* The scores averaged when every frame counts, with or without a face.
MUT_face_scores(frame_analysis, detector, score) ==
    [i \in 1 .. Len(frame_analysis) |-> frame_analysis[i][detector][score]]

\* Lines 209-210: the scores of the frames whose result of this detector has
\* face_detected.
face_scores(frame_analysis, detector, score) ==
    LET with_face == SelectSeq(frame_analysis, LAMBDA entry : HasFace(entry, detector))
    IN  [i \in 1 .. Len(with_face) |-> with_face[i][detector][score]]

\* Lines 208-225: the aggregate analyses of a session.
deepfake_analysis_of(frame_analysis) ==
    LET deepfake_scores == face_scores(frame_analysis, "deepfake", "deepfake_score")
    IN  [deepfake_score |-> IF deepfake_scores # <<>> THEN mean(deepfake_scores) ELSE 0,
         face_detected |->
             Len(SelectSeq(frame_analysis, LAMBDA entry : HasFace(entry, "deepfake"))) > 0,
         indicators |-> EmptyDict]

liveness_analysis_of(frame_analysis) ==
    LET liveness_scores == face_scores(frame_analysis, "liveness", "liveness_score")
    IN  [liveness_score |-> IF liveness_scores # <<>> THEN mean(liveness_scores) ELSE 0,
         face_detected |->
             Len(SelectSeq(frame_analysis, LAMBDA entry : HasFace(entry, "liveness"))) > 0]

\* The alerts a verification of these analyses creates.
AlertsRaisedBy(o) ==
    BoolToInt(deepfake_check(o)) + BoolToInt(liveness_check(o)) + BoolToInt(face_check(o))

\* complete_verification, lines 193-233: the session has analysed frames;
\* the aggregates go to evaluate_verification_result.
complete_verification(t, session_id) ==
    /\ session_id \in DOMAIN active_sessions
    /\ active_sessions[session_id].frame_analysis # <<>>
    /\ LET frame_analysis == active_sessions[session_id].frame_analysis
           deepfake_analysis == deepfake_analysis_of(frame_analysis)
           liveness_analysis == liveness_analysis_of(frame_analysis)
       IN  /\ Len(heap) + AlertsRaisedBy([deepfake_analysis |-> deepfake_analysis,
                                          liveness_analysis |-> liveness_analysis])
                 <= MaxAlerts
           /\ evaluate_verification_result(t, session_id, deepfake_analysis,
                                           liveness_analysis)

\* complete_verification, lines 235-241: the session is completed and keeps
\* the result, which is the response.
complete_verification_return(t) ==
    /\ pc[t] = "return"
    /\ active_sessions' =
          [active_sessions EXCEPT ![op[t].session_id].status = "completed",
                                  ![op[t].session_id].verification_result = result[t]]
    /\ pc' = [pc EXCEPT ![t] = "idle"]
    /\ op' = [op EXCEPT ![t] = NoOp]
    /\ frame' = [frame EXCEPT ![t] = NoFrame]
    /\ result' = [result EXCEPT ![t] = None]
    /\ UNCHANGED << clock, heap, alerts, alert_queue, cpc, ack_result, worker, dispatched,
                    sev_call >>
    /\ UNCHANGED << liveness_detector, deepfake_detector, analysis, isolated >>

\* get_session_status, lines 248-269: a read of the session.
get_session_status(session_id) ==
    /\ session_id \in DOMAIN active_sessions
    /\ UNCHANGED vars

\* ------------------------------------------------------- rejected requests

\* A JSON error response: the status code and the "error" text.
Response(code, error) == [code |-> code, error |-> error]

\* ChallengeType, liveness_detection.py lines 46-52: the member names.
ChallengeTypeNames == {"HEAD_TURN", "BLINK", "MOUTH_OPEN", "SMILE", "NOD"}

\* str.upper on the challenge types sent.
upper(text) ==
    CASE text = "blink" -> "BLINK"
      [] text = "Nod" -> "NOD"
      [] text = "wink" -> "WINK"

\* send_liveness_challenge, lines 94-105 and 125-127: the response to a
\* request that is not served. challenge_type is the JSON value: None is
\* null, on which .upper() raises AttributeError.
send_liveness_challenge_error(sessions, session_id, challenge_type) ==
    IF session_id \notin DOMAIN sessions
    THEN Some(Response(400, "Invalid session_id"))
    ELSE IF challenge_type = None
    THEN Some(Response(500, "'NoneType' object has no attribute 'upper'"))
    ELSE IF upper(challenge_type[1]) \notin ChallengeTypeNames
    THEN Some(Response(400, "Invalid challenge_type"))
    ELSE None

\* upload_video_frame, lines 136-137.
upload_video_frame_error(sessions, session_id) ==
    IF session_id \notin DOMAIN sessions
    THEN Some(Response(400, "Invalid session_id"))
    ELSE None

\* complete_verification, lines 200-206.
complete_verification_error(sessions, session_id) ==
    IF session_id \notin DOMAIN sessions
    THEN Some(Response(400, "Invalid session_id"))
    ELSE IF sessions[session_id].frame_analysis = <<>>
    THEN Some(Response(400, "No frames analyzed"))
    ELSE None

\* get_session_status, lines 253-254.
get_session_status_error(sessions, session_id) ==
    IF session_id \notin DOMAIN sessions
    THEN Some(Response(400, "Invalid session_id"))
    ELSE None

\* The acknowledge endpoint, app.py lines 306-311: the status code for what
\* acknowledge_alert returned.
acknowledge_status(success) == IF success THEN 200 ELSE 404

\* A request that returns an error response: the thread keeps the request
\* and the response, the handler has returned before any assignment.
Rejected(t, request, error) ==
    /\ pc[t] = "idle"
    /\ error # None
    /\ op' = [op EXCEPT ![t] = request]
    /\ result' = [result EXCEPT ![t] = error]
    /\ UNCHANGED << clock, heap, alerts, alert_queue, pc, cpc, frame, ack_result, worker,
                    dispatched, sev_call >>
    /\ UNCHANGED appVars

send_liveness_challenge_rejected(t, session_id, challenge_type) ==
    Rejected(t, [name |-> "send_liveness_challenge", session_id |-> session_id,
                 challenge_type |-> challenge_type],
             send_liveness_challenge_error(active_sessions, session_id, challenge_type))

upload_video_frame_rejected(t, session_id) ==
    Rejected(t, [name |-> "upload_video_frame", session_id |-> session_id],
             upload_video_frame_error(active_sessions, session_id))

complete_verification_rejected(t, session_id) ==
    Rejected(t, [name |-> "complete_verification", session_id |-> session_id],
             complete_verification_error(active_sessions, session_id))

get_session_status_rejected(t, session_id) ==
    Rejected(t, [name |-> "get_session_status", session_id |-> session_id],
             get_session_status_error(active_sessions, session_id))

\* ----------------------------------------------------------- specifications

\* The direct create_alert call tried: the one upload_video_frame makes for a
\* frame without a face.
DirectAlerts == {<<"FACE_NOT_DETECTED", "MEDIUM">>}

\* The verification inputs tried: scores on both sides of the thresholds of
\* the adjudicator, one score per severity of the classifier, an indicator
\* that raises the severity; a dict may lack a key.
EvalDeepfakeAnalyses ==
    {[deepfake_score |-> s, face_detected |-> f, indicators |-> EmptyDict] :
        s \in {20, 60, 61, 76, 85, 86}, f \in BOOLEAN}
    \cup {[deepfake_score |-> 61, face_detected |-> TRUE,
           indicators |-> [k \in {"texture_anomaly"} |-> 91]],
          [face_detected |-> TRUE],
          EmptyDict}

EvalLivenessAnalyses ==
    {[liveness_score |-> s, face_detected |-> TRUE] : s \in {10, 49, 50, 90}}
    \cup {EmptyDict}

\* No more than MaxAlerts Alert objects: a direct call starts only if the
\* calls that have not constructed their object yet leave room for one more.
HasRoom ==
    Len(heap) + Cardinality({t \in Threads : cpc[t] = "put"}) < MaxAlerts

CreateCalls(threads) ==
    \E t \in threads, a \in DirectAlerts, sid \in SessionIds :
        HasRoom /\ create_alert(t, a[1], sid, a[2])

CreateSteps(threads) ==
    \E t \in threads : create_alert_put(t) \/ create_alert_append(t)

\* One verification per behaviour that raises alerts, by one thread.
EvalCalls(threads) ==
    \E t \in threads, sid \in {"s1"}, da \in EvalDeepfakeAnalyses,
       la \in EvalLivenessAnalyses :
        heap = <<>> /\ evaluate_verification_result(t, sid, da, la)

EvalSteps(threads) ==
    \E t \in threads :
        \/ check_deepfake(t)
        \/ record_deepfake(t)
        \/ check_liveness(t)
        \/ record_liveness(t)
        \/ check_face(t)
        \/ record_face(t)
        \/ determine_status(t)
        \/ leave(t)

Acknowledgements(operators) ==
    \E id \in AlertIds, who \in operators : acknowledge_alert(id, who)

\* The worker with handlers that do not raise and no database configured, as
\* backend/app/app.py constructs the service.
Worker == process_alerts_get \/ send_notifications(FALSE)

\* The worker with handlers that may raise and a database path that may be
\* configured.
DispatchWorker ==
    \/ process_alerts_get
    \/ \E raised \in BOOLEAN : send_notifications(raised)
    \/ log_to_database

\* The alert store: one request thread creating alerts, operators
\* acknowledging them.
Next ==
    \/ Tick
    \/ CreateCalls({"t1"})
    \/ CreateSteps({"t1"})
    \/ Acknowledgements(Operators)

Spec == Init /\ [][Next]_vars

\* Alert creation by concurrent request threads against the worker.
NextWorker ==
    \/ Tick
    \/ CreateCalls(Threads)
    \/ CreateSteps(Threads)
    \/ Worker

SpecWorker == Init /\ [][NextWorker]_vars

\* One verification from start to dispatch, with an operator acknowledging.
NextEval ==
    \/ Tick
    \/ EvalCalls({"t1"})
    \/ CreateSteps({"t1"})
    \/ EvalSteps({"t1"})
    \/ Acknowledgements({"op1"})
    \/ Worker

SpecEval == Init /\ [][NextEval]_vars

\* The severities of the alerts created against the failing worker.
DispatchAlerts == {<<"FACE_NOT_DETECTED", "MEDIUM">>, <<"DEEPFAKE_DETECTED", "CRITICAL">>}

\* The service constructed with or without a database path.
DatabasePaths == {None, Some("alerts.db")}

InitDispatch ==
    /\ clock = 0
    /\ heap = <<>>
    /\ alerts = <<>>
    /\ alert_queue = <<>>
    /\ pc = [t \in Threads |-> "idle"]
    /\ cpc = [t \in Threads |-> "none"]
    /\ op = [t \in Threads |-> NoOp]
    /\ frame = [t \in Threads |-> NoFrame]
    /\ result = [t \in Threads |-> None]
    /\ ack_result = NoAck
    /\ \E path \in DatabasePaths : worker = [IdleWorker EXCEPT !.database_path = path]
    /\ dispatched = <<>>
    /\ sev_call = NoSevCall
    /\ InitApp(FALSE)

DispatchCreateCalls(threads) ==
    \E t \in threads, a \in DispatchAlerts :
        HasRoom /\ create_alert(t, a[1], "s1", a[2])

\* Alert creation against a worker whose handlers may raise.
NextDispatch ==
    \/ DispatchCreateCalls({"t1"})
    \/ CreateSteps({"t1"})
    \/ DispatchWorker

SpecDispatch == InitDispatch /\ [][NextDispatch]_vars

\* The alert processor is a thread of its own that the scheduler keeps
\* running: a step of it that stays possible is taken.
SpecDispatchFair == SpecDispatch /\ WF_vars(DispatchWorker)

\* The frames tried on the detectors: without a face; with a face and no
\* landmarks; an open-eyed and a blinking face; a face with degenerate
\* geometry whose texture extractor raises; a face whose geometry extractor
\* raises; landmarks without a face found by the cascade.  The centroids go
\* from one edge of the image (0) to the other (100), the lips from closed
\* to as far apart as the image is high.
DetectorFrames ==
    { Frame(FALSE, None, 0, Texture(0, 0, 0, 0), FALSE),
      Frame(TRUE, None, 100, Texture(0, 0, 100, 100), FALSE),
      Frame(TRUE, Landmarks(30, 100, 0, 0), 0, Texture(1000, 100, 0, 0), FALSE),
      Frame(TRUE, Landmarks(10, 110, 20, 30), 100, Texture(500, 50, 40, 300), FALSE),
      Frame(TRUE, Landmarks(0, 1000, 100, 0), 200, None, FALSE),
      Frame(TRUE, Landmarks(30, 100, 0, 0), 0, Texture(1000, 100, 0, 0), TRUE),
      Frame(FALSE, Landmarks(10, 100, 0, 100), 50, Texture(0, 0, 0, 0), FALSE) }

\* The history_size app.py constructs the deepfake detector with.
AppHistorySize == 30

\* A sequence of n values that repeats a pattern.
Pattern(n, pattern) == [i \in 1 .. n |-> pattern[((i - 1) % Len(pattern)) + 1]]

\* The detector of app.py after AppHistorySize frames or more with
\* landmarks: its histories are full.
WarmDetectors ==
    { [DeepfakeDetector(AppHistorySize, TRUE) EXCEPT
          !.blink_history = Pattern(AppHistorySize, h[1]),
          !.face_geometry_history = Pattern(AppHistorySize, h[2]),
          !.frame_history = Pattern(AppHistorySize, h[3])] :
        h \in { << <<10, 30>>, <<100>>, <<0, 0, 100>> >>,
                << <<30>>, <<100, 110>>, <<0>> >>,
                << <<30, 30, 10, 10>>, <<100, 1000>>, <<0, 200>> >> } }

\* The detectors as constructed, with MediaPipe available or not, or the
\* deepfake detector with full histories.
InitDetector ==
    /\ clock = 0
    /\ heap = <<>>
    /\ alerts = <<>>
    /\ alert_queue = <<>>
    /\ pc = [t \in Threads |-> "idle"]
    /\ cpc = [t \in Threads |-> "none"]
    /\ op = [t \in Threads |-> NoOp]
    /\ frame = [t \in Threads |-> NoFrame]
    /\ result = [t \in Threads |-> None]
    /\ ack_result = NoAck
    /\ worker = IdleWorker
    /\ dispatched = <<>>
    /\ sev_call = NoSevCall
    /\ active_sessions = [sid \in {} |-> 0]
    /\ isolated = [sid \in {} |-> 0]
    /\ \/ /\ \E mediapipe \in BOOLEAN :
                 /\ liveness_detector = LivenessDetector(mediapipe)
                 /\ deepfake_detector = DeepfakeDetector(HistorySize, mediapipe)
          /\ analysis = NoAnalysis
       \/ /\ liveness_detector = LivenessDetector(TRUE)
          /\ deepfake_detector \in WarmDetectors
          /\ analysis = [NoAnalysis EXCEPT
                            !.appended =
                                [b \in DOMAIN NoAppends |-> deepfake_detector[b]]]

\* Frames through the two detectors.
NextDetector == \E img \in DetectorFrames : analyse_frame(img)

SpecDetector == InitDetector /\ [][NextDetector]_vars

\* Landmark arrays in any scale, by their centroid: the displacements
\* between them are 0, half the threshold, one hundredth under it, the
\* threshold, one hundredth over it, and more.
HeadLandmarks ==
    {Landmarks(30, 100, c, 0) : c \in {0, 750, 1499, 1500, 1501, 3000, 4600}}

\* The head-movement extractor called on landmark arrays, or on none, and
\* the detector reset in between.
NextHeadMovement ==
    \/ \E landmarks \in HeadLandmarks \cup {None} : head_movement_call(landmarks)
    \/ liveness_detector_reset("t1")

SpecHeadMovement == Init /\ [][NextHeadMovement]_vars

\* The frames tried between resets: a face without landmarks, an open-eyed
\* face at one edge of the image, a blinking face at the other.
ResetFrames ==
    { Frame(TRUE, None, 100, Texture(0, 0, 100, 100), FALSE),
      Frame(TRUE, Landmarks(30, 100, 0, 0), 0, Texture(1000, 100, 0, 0), FALSE),
      Frame(TRUE, Landmarks(10, 110, 100, 100), 200, Texture(500, 50, 40, 300), FALSE) }

\* Frames through the two detectors, and resets of the detectors: the
\* liveness detector by one caller, the deepfake detector by another.
NextReset ==
    \/ \E img \in ResetFrames : analyse_frame(img)
    \/ liveness_detector_reset("t1")
    \/ deepfake_detector_reset("t2")

SpecReset == InitDetector /\ [][NextReset]_vars

\* The frames uploaded to sessions: a dark one without a face; a dark face
\* with open eyes and a sharp texture; a bright face with a smooth texture.
SessionFrames ==
    { Frame(FALSE, None, 0, Texture(0, 0, 0, 0), FALSE),
      Frame(TRUE, Landmarks(30, 100, 0, 0), 0, Texture(1000, 100, 0, 0), FALSE),
      Frame(TRUE, Landmarks(10, 110, 20, 30), 100, Texture(0, 0, 100, 100), FALSE) }

ChallengeTypes == {"blink"}

InitSession ==
    /\ clock = 0
    /\ heap = <<>>
    /\ alerts = <<>>
    /\ alert_queue = <<>>
    /\ pc = [t \in Threads |-> "idle"]
    /\ cpc = [t \in Threads |-> "none"]
    /\ op = [t \in Threads |-> NoOp]
    /\ frame = [t \in Threads |-> NoFrame]
    /\ result = [t \in Threads |-> None]
    /\ ack_result = NoAck
    /\ worker = IdleWorker
    /\ dispatched = <<>>
    /\ sev_call = NoSevCall
    /\ \E mediapipe \in BOOLEAN : InitApp(mediapipe)

SessionCalls(threads) ==
    \E t \in threads :
        /\ pc[t] = "idle"
        /\ \/ \E sid \in SessionIds : start_verification_session(sid)
           \/ \E sid \in SessionIds, c \in ChallengeTypes : send_liveness_challenge(sid, c)
           \/ \E sid \in SessionIds, img \in SessionFrames : upload_video_frame(t, sid, img)
           \/ \E sid \in SessionIds : complete_verification(t, sid)
           \/ \E sid \in SessionIds : get_session_status(sid)

SessionSteps(threads) ==
    \E t \in threads :
        \/ check_deepfake(t)
        \/ record_deepfake(t)
        \/ check_liveness(t)
        \/ record_liveness(t)
        \/ check_face(t)
        \/ record_face(t)
        \/ determine_status(t)
        \/ complete_verification_return(t)

\* The session endpoints served by one request thread, a request at a time.
NextSession ==
    \/ SessionCalls({"t1"})
    \/ CreateSteps({"t1"})
    \/ SessionSteps({"t1"})

SpecSession == InitSession /\ [][NextSession]_vars

\* The challenge types requests carry: member names in lower and mixed case,
\* a name that is no member, and JSON null.
ChallengeInputs == {Some("blink"), Some("Nod"), Some("wink"), None}

\* The frames uploaded next to rejected requests: without a face, with one.
RequestFrames ==
    { Frame(FALSE, None, 0, Texture(0, 0, 0, 0), FALSE),
      Frame(TRUE, Landmarks(30, 100, 0, 0), 100, Texture(1000, 100, 0, 0), FALSE) }

RequestCalls(threads) ==
    \E t \in threads :
        /\ pc[t] = "idle"
        /\ \/ \E sid \in SessionIds : start_verification_session(sid)
           \/ \E sid \in SessionIds : send_liveness_challenge(sid, "blink")
           \/ \E sid \in SessionIds, img \in RequestFrames : upload_video_frame(t, sid, img)

Rejections(threads) ==
    \E t \in threads, sid \in SessionIds :
        \/ \E c \in ChallengeInputs : send_liveness_challenge_rejected(t, sid, c)
        \/ upload_video_frame_rejected(t, sid)
        \/ complete_verification_rejected(t, sid)
        \/ get_session_status_rejected(t, sid)

\* The endpoints with requests that are served and requests that are not, and
\* the acknowledge endpoint.
NextRequest ==
    \/ RequestCalls({"t1"})
    \/ CreateSteps({"t1"})
    \/ Rejections({"t1"})
    \/ Acknowledgements({"op1"})

SpecRequest == InitSession /\ [][NextRequest]_vars

\* The severity classifier called directly, on every combination of scores
\* and indicators around its thresholds.
SevScores == {40, 55, 56, 70, 71, 75, 76, 85, 86}

SevLiveness == {10, 19, 20, 34, 35, 49, 50, 80}

IndicatorMaps ==
    {[k \in keys |-> CASE k = "blink_pattern_anomaly" -> v[1]
                       [] k = "texture_anomaly" -> v[2]
                       [] k = "face_not_detected" -> v[3]
                       [] k = "geometry_inconsistency" -> v[4]
                       [] k = "temporal_anomaly" -> v[5]] :
        keys \in SUBSET {"blink_pattern_anomaly", "texture_anomaly", "face_not_detected",
                         "geometry_inconsistency", "temporal_anomaly"},
        v \in {80, 81} \X {70, 71, 90, 91} \X BOOLEAN \X {80, 81} \X {60, 61}}

InitSev ==
    /\ InitService
    /\ \E d \in SevScores, l \in SevLiveness, ind \in IndicatorMaps :
          sev_call = [deepfake_score |-> d, liveness_score |-> l, indicators |-> ind,
                      ret |-> None]

classify ==
    /\ sev_call.ret = None
    /\ sev_call' = [sev_call EXCEPT !.ret =
                      Some(determine_alert_severity(sev_call.deepfake_score,
                                                    sev_call.liveness_score,
                                                    sev_call.indicators))]
    /\ UNCHANGED << clock, heap, alerts, alert_queue, pc, cpc, op, frame, result,
                    ack_result, worker, dispatched >>
    /\ UNCHANGED appVars

SpecSev == InitSev /\ [][classify]_vars

\* ------------------------------------------------------------------ claims

\* C1: determine_alert_severity returns CRITICAL for (0.85, 0.1, {}) and LOW
\* for (0.4, 0.8, {}).
C1_SeverityExamples ==
    /\ (sev_call.ret # None /\ sev_call.deepfake_score = 85
        /\ sev_call.liveness_score = 10 /\ sev_call.indicators = EmptyDict)
       => sev_call.ret = Some("CRITICAL")
    /\ (sev_call.ret # None /\ sev_call.deepfake_score = 40
        /\ sev_call.liveness_score = 80 /\ sev_call.indicators = EmptyDict)
       => sev_call.ret = Some("LOW")

\* The number of conditions of a list that hold.
HowMany(conditions) == Cardinality({i \in DOMAIN conditions : conditions[i]})

\* The severity the cascade of the specification gives.
C6_Cascade(d, l, ind) ==
    LET blink == Get(ind, "blink_pattern_anomaly", 0)
        texture == Get(ind, "texture_anomaly", 0)
        geometry == Get(ind, "geometry_inconsistency", 0)
        temporal == Get(ind, "temporal_anomaly", 0)
        noface == Get(ind, "face_not_detected", FALSE)
        critical == d > 85 \/ HowMany(<<d > 85, l < 20, blink > 80, texture > 90, noface>>) >= 2
        high == d > 75 \/ HowMany(<<d > 70, l < 35, texture > 70, geometry > 80>>) >= 2
        medium == HowMany(<<d > 55, l < 50, temporal > 60>>) >= 1
    IN  CASE critical -> "CRITICAL"
          [] ~ critical /\ high -> "HIGH"
          [] ~ critical /\ ~ high /\ medium -> "MEDIUM"
          [] OTHER -> "LOW"

DeepfakeScoreOf(o) == Get(o.deepfake_analysis, "deepfake_score", 0)

LivenessScoreOf(o) == Get(o.liveness_analysis, "liveness_score", 0)

FaceDetectedOf(o) == Get(o.deepfake_analysis, "face_detected", FALSE)

\* C2: evaluate_verification_result returns verified = true and status PASSED
\* exactly when deepfake_score <= 0.6, liveness_score >= 0.5 and a face was
\* detected; otherwise verified = false, status FAILED and alerts non-empty.
C2_VerdictIffNoAlert ==
    \A t \in Threads :
        pc[t] = "return" =>
            LET o == op[t]
                r == result[t][1]
            IN  IF DeepfakeScoreOf(o) <= 60 /\ LivenessScoreOf(o) >= 50 /\ FaceDetectedOf(o)
                THEN r.verified = TRUE /\ r.status = Some("PASSED")
                ELSE r.verified = FALSE /\ r.status = Some("FAILED") /\ r.alerts # <<>>

\* A verification on the passing side of both thresholds has returned.
C2_Witness ==
    \E t \in Threads :
        /\ pc[t] = "return"
        /\ DeepfakeScoreOf(op[t]) = 60
        /\ LivenessScoreOf(op[t]) = 50
        /\ result[t][1].status = Some("PASSED")

\* The alerts (type, severity) and the recommendations the three checks
\* give for the arguments o, in the order of the checks.
C7_ExpectedAlerts(o) ==
    (IF DeepfakeScoreOf(o) > 60
     THEN << <<"DEEPFAKE_DETECTED",
               determine_alert_severity(DeepfakeScoreOf(o), LivenessScoreOf(o),
                   Get(o.deepfake_analysis, "indicators", EmptyDict))>> >>
     ELSE <<>>)
    \o (IF LivenessScoreOf(o) < 50 THEN << <<"LIVENESS_FAILED", "HIGH">> >> ELSE <<>>)
    \o (IF ~ FaceDetectedOf(o) THEN << <<"FACE_NOT_DETECTED", "MEDIUM">> >> ELSE <<>>)

C7_ExpectedRecommendations(o) ==
    (IF DeepfakeScoreOf(o) > 60 THEN <<"REJECT - Deepfake indicators detected">> ELSE <<>>)
    \o (IF LivenessScoreOf(o) < 50 THEN <<"REJECT - Liveness verification failed">> ELSE <<>>)
    \o (IF ~ FaceDetectedOf(o) THEN <<"REJECT - Face not detected">> ELSE <<>>)
    \o (IF DeepfakeScoreOf(o) <= 60 /\ LivenessScoreOf(o) >= 50 /\ FaceDetectedOf(o)
        THEN <<"APPROVE - Identity verification passed">> ELSE <<>>)

\* C7: the returned alerts are exactly, in this order, a DEEPFAKE_DETECTED
\* alert at the classifier's severity if deepfake_score > 0.6, a
\* LIVENESS_FAILED alert at HIGH if liveness_score < 0.5 and a
\* FACE_NOT_DETECTED alert at MEDIUM if no face was detected, each with one
\* REJECT recommendation; APPROVE appears only when no check triggered.
C7_AllChecksRun ==
    \A t \in Threads :
        pc[t] = "return" =>
            LET r == result[t][1]
            IN  /\ [i \in 1 .. Len(r.alerts) |->
                        <<r.alerts[i].alert_type, r.alerts[i].severity>>]
                   = C7_ExpectedAlerts(op[t])
                /\ r.recommendations = C7_ExpectedRecommendations(op[t])
                /\ \A i \in 1 .. Len(r.alerts) : r.alerts[i].session_id = op[t].session_id

\* A verification that failed all three checks has returned.
C7_Witness ==
    \E t \in Threads :
        /\ pc[t] = "return"
        /\ Len(result[t][1].alerts) = 3
        /\ Len(result[t][1].recommendations) = 3

\* C8: every stored alert is "active" or "acknowledged", and an acknowledged
\* alert is never active again, whatever step is taken.
C8_StatusMonotonic ==
    [][ /\ \A a \in 1 .. Len(heap') : heap'[a].status \in {"active", "acknowledged"}
        /\ \A a \in 1 .. Len(heap) :
              heap[a].status = "acknowledged" => heap'[a].status = "acknowledged" ]_vars

\* An alert raised by a verification was acknowledged twice, after the worker
\* dispatched it and the verification returned.
C8_Witness ==
    /\ ack_result.prior = Some("acknowledged")
    /\ dispatched # <<>>
    /\ \E t \in Threads : pc[t] = "return"
    /\ \E a \in 1 .. Len(heap) : heap[a].status = "acknowledged"

\* The stored alerts that carry an alert id.
StoredWithId(alert_id) ==
    {alerts[i] : i \in {j \in 1 .. Len(alerts) : heap[alerts[j]].alert_id = alert_id}}

\* C3: an alert returned by create_alert is "active" with acknowledged_at and
\* acknowledged_by unset; acknowledge_alert(alert_id, who) with the id of a
\* stored alert returns true, makes that alert "acknowledged" by who at a
\* timestamp, and the alert is not active from then on.
C3_AcknowledgeCreated ==
    [][ /\ \A t \in Threads :
              create_alert_append(t) =>
                  /\ heap'[frame[t].alert].status = "active"
                  /\ heap'[frame[t].alert].acknowledged_at = None
                  /\ heap'[frame[t].alert].acknowledged_by = None
        /\ \A id \in AlertIds, who \in Operators :
              acknowledge_alert(id, who) =>
                  \A a \in StoredWithId(id) :
                      /\ ack_result'.ret = Some(TRUE)
                      /\ heap'[a].status = "acknowledged"
                      /\ heap'[a].acknowledged_by = Some(who)
                      /\ heap'[a].acknowledged_at # None
        /\ \A a \in 1 .. Len(heap) :
              heap[a].status = "acknowledged" => heap'[a].status = "acknowledged" ]_vars

\* C4: acknowledge_alert with an id that matches no stored alert returns
\* false and changes neither an alert, nor the store, nor the queue.
C4_UnknownIdNoEffect ==
    [][ \A id \in AlertIds, who \in Operators :
            (acknowledge_alert(id, who) /\ StoredWithId(id) = {}) =>
                /\ ack_result'.ret = Some(FALSE)
                /\ heap' = heap
                /\ alerts' = alerts
                /\ alert_queue' = alert_queue ]_vars

\* An acknowledgement found no alert although alerts are stored and queued,
\* one of them already acknowledged.
C4_Witness ==
    /\ ack_result.ret = Some(FALSE)
    /\ Len(alerts) >= 2
    /\ alert_queue # <<>>
    /\ \E a \in 1 .. Len(heap) : heap[a].status = "acknowledged"

\* The create_alert calls that have returned: every Alert object was
\* constructed by one call, which has returned unless it still is before its
\* append.
CompletedCreates == Len(heap) - Cardinality({t \in Threads : cpc[t] = "append"})

\* C5: with no acknowledgement, after n completed create_alert calls
\* get_active_alerts returns exactly n alerts, for every interleaving of the
\* request threads and the worker.
C5_ActiveCountIsCreated ==
    (\A a \in 1 .. Len(heap) : heap[a].status = "active")
        => Len(get_active_alerts) = CompletedCreates

\* Three calls have returned, two of them interleaved so that the store holds
\* their alerts in the opposite order of their construction, while the worker
\* is dispatching.
C5_Witness ==
    /\ CompletedCreates = 3
    /\ Len(get_active_alerts) = 3
    /\ \E i \in 1 .. Len(alerts) - 1 : alerts[i] > alerts[i + 1]
    /\ worker.pc = "send"

\* C9 as stated: acknowledge_alert returns false whenever no stored alert
\* with the given id is "active".
C9_FailsUnlessActive ==
    [][ \A id \in AlertIds, who \in Operators :
            (acknowledge_alert(id, who) /\ \A a \in StoredWithId(id) : ~ IsActive(a))
                => ack_result'.ret = Some(FALSE) ]_vars

\* C9, amended: acknowledge_alert returns false exactly when no stored alert
\* has the given id; when one has, whatever its status, it returns true and
\* the first such alert is "acknowledged" by the caller afterwards.
C9_FailsIffUnknown ==
    [][ \A id \in AlertIds, who \in Operators :
            acknowledge_alert(id, who) =>
                IF StoredWithId(id) = {}
                THEN ack_result'.ret = Some(FALSE)
                ELSE /\ ack_result'.ret = Some(TRUE)
                     /\ \E a \in StoredWithId(id) :
                           /\ heap'[a].status = "acknowledged"
                           /\ heap'[a].acknowledged_by = Some(who) ]_vars

\* An alert that was acknowledged already was acknowledged again, by another
\* operator, and the call returned true.
C9_Witness ==
    /\ ack_result = [ret |-> Some(TRUE), prior |-> Some("acknowledged")]
    /\ \E a \in 1 .. Len(heap) :
          /\ heap[a].acknowledged_by = Some("op2")
          /\ heap[a].acknowledged_at = Some(1)

\* The channel list the specification gives each severity.
C10_Channels ==
    [sev \in AlertSeverity |->
        CASE sev = "LOW"      -> <<"log">>
          [] sev = "MEDIUM"   -> <<"log", "email">>
          [] sev = "HIGH"     -> <<"log", "email", "slack">>
          [] sev = "CRITICAL" -> <<"log", "email", "slack", "sms", "page">>]

\* The channels the worker has attempted for an alert, in order.
ChannelsAttempted(alert) ==
    LET IsFor(entry) == entry[1] = alert
        entries == SelectSeq(dispatched, IsFor)
    IN  [i \in 1 .. Len(entries) |-> entries[i][2]]

\* The alerts whose dispatch is over.
Dispatched ==
    {dispatched[i][1] : i \in 1 .. Len(dispatched)}
        \ (IF worker.pc = "send" THEN {worker.alert} ELSE {})

\* C10: LOW goes to [log], MEDIUM to [log, email], HIGH to [log, email,
\* slack], CRITICAL to [log, email, slack, sms, page], and the worker
\* dispatches an alert through the channels of its severity, in that order.
C10_PolicyChannels ==
    \A a \in Dispatched : ChannelsAttempted(a) = C10_Channels[heap[a].severity]

\* The attempts the worker has made for an alert, in order.
AttemptsFor(alert) ==
    LET IsFor(entry) == entry[1] = alert
    IN  SelectSeq(dispatched, IsFor)

\* The alerts the worker has made an attempt for.
Attempted == {dispatched[i][1] : i \in 1 .. Len(dispatched)}

\* C11: whichever handlers raise, every channel of the policy of an alert is
\* attempted exactly once and in order (while the worker is in the loop, the
\* channels before the current one), and no step of the worker changes an
\* alert record.
C11_FailureDoesNotBlock ==
    /\ [](\A a \in Attempted :
            ChannelsAttempted(a) =
                IF worker.pc = "send" /\ worker.alert = a
                THEN SubSeq(policy_channels(heap[a].severity), 1, worker.i - 1)
                ELSE policy_channels(heap[a].severity))
    /\ [][ (worker' # worker \/ dispatched' # dispatched) =>
              \A a \in 1 .. Len(heap) : heap'[a] = heap[a] ]_vars

\* The dispatch of a CRITICAL alert is over; its log and slack handlers
\* raised, its email and sms handlers did not.
C11_Witness ==
    \E a \in Dispatched :
        /\ heap[a].severity = "CRITICAL"
        /\ heap[a].status = "active"
        /\ [i \in 1 .. Len(AttemptsFor(a)) |-> AttemptsFor(a)[i][3]]
               = <<TRUE, FALSE, TRUE, FALSE>>

\* A sequence without the repetitions of an element next to itself.
RECURSIVE Runs(_)
Runs(seq) ==
    IF Len(seq) <= 1 THEN seq
    ELSE IF seq[1] = seq[2] THEN Runs(Tail(seq))
    ELSE <<seq[1]>> \o Runs(Tail(seq))

\* The alerts the worker has taken from the queue, in the order it took them:
\* those it made attempts for and the one it has made no attempt for yet.
Dequeued ==
    Runs([i \in 1 .. Len(dispatched) |-> dispatched[i][1]]
         \o (IF worker.pc = "send" /\ worker.i = 1 THEN <<worker.alert>> ELSE <<>>))

\* C12: the alerts are taken from the queue in the order create_alert put
\* them there (the n-th Alert object constructed is the n-th put), whatever
\* their severity; the worker takes the next alert only when every channel of
\* the alerts before it was attempted; and only the worker, for the alert it
\* holds, adds an attempt.
C12_FifoDispatch ==
    /\ [](Dequeued \o alert_queue = [i \in 1 .. Len(heap) |-> i])
    /\ [][ /\ alert_queue' # alert_queue /\ Len(alert_queue') < Len(alert_queue) =>
                \A a \in Attempted :
                    ChannelsAttempted(a) = policy_channels(heap[a].severity)
           /\ dispatched' # dispatched =>
                /\ worker.pc = "send"
                /\ \E raised \in BOOLEAN :
                      dispatched' = Append(dispatched,
                          << worker.alert, worker.channels[worker.i], raised >>)
                /\ pc' = pc /\ cpc' = cpc ]_vars

\* A MEDIUM alert was put before a CRITICAL one and a third alert: the MEDIUM
\* one is dispatched, the worker is in the channels of the CRITICAL one and
\* the third is waiting.
C12_Witness ==
    /\ Len(heap) = 3
    /\ heap[1].severity = "MEDIUM" /\ heap[2].severity = "CRITICAL"
    /\ 1 \in Dispatched
    /\ worker.pc = "send" /\ worker.alert = 2 /\ worker.i = 3
    /\ alert_queue = <<3>>

\* C13: with the worker scheduled fairly, every alert put on the queue is in
\* the end dispatched through all channels of its policy; it is never
\* attempted more often than its policy has channels (no retry), whatever
\* raised before; and the worker is always in its loop.
C13_EventuallyDispatchedOnce ==
    /\ \A a \in 1 .. MaxAlerts :
          (Len(heap) >= a) ~>
              (/\ a \in Dispatched
               /\ ChannelsAttempted(a) = policy_channels(heap[a].severity))
    /\ [](\A a \in Attempted :
            Len(AttemptsFor(a)) <= Len(policy_channels(heap[a].severity)))
    /\ [](worker.pc \in {"get", "send", "log"})

\* With a database path configured, every handler of the first alert raised
\* and the alert put after it is dispatched all the same.
C13_Witness ==
    /\ worker.database_path # None
    /\ worker.pc = "get"
    /\ {1, 2} \subseteq Dispatched
    /\ \A i \in 1 .. Len(AttemptsFor(1)) : AttemptsFor(1)[i][3]
    /\ ChannelsAttempted(2) = policy_channels(heap[2].severity)

\* The alerts in the store.
Stored == {alerts[i] : i \in 1 .. Len(alerts)}

\* C14: an alert the worker has taken from the queue, or made an attempt
\* for, is in the alert store.
C14_DequeuedIsStored ==
    \A a \in Attempted \cup (IF worker.pc \in {"send", "log"} THEN {worker.alert} ELSE {}) :
        a \in Stored

\* The history buffers of the deepfake detector.
HistoryBuffers == {"blink_history", "face_geometry_history", "frame_history"}

\* The last n entries of a sequence, or all of it if it has fewer.
LastOf(seq, n) == SubSeq(seq, max(1, Len(seq) - n + 1), Len(seq))

\* C15: after any number of processed frames every history buffer has at
\* most history_size entries, and they are the last history_size values
\* appended to it, in the order they were appended.
C15_HistoryBounded ==
    \A b \in HistoryBuffers :
        /\ Len(deepfake_detector[b]) <= deepfake_detector.history_size
        /\ deepfake_detector[b]
              = LastOf(analysis.appended[b], deepfake_detector.history_size)

\* A detector that started empty has had history_size + 2 values appended to
\* its blink history and, an extractor having raised once, one less to its
\* frame history; the values evicted differ from those that took their place.
C15_Witness ==
    /\ deepfake_detector.history_size = HistorySize
    /\ Len(analysis.appended.blink_history) = HistorySize + 2
    /\ Len(analysis.appended.frame_history) = HistorySize + 1
    /\ Len(deepfake_detector.frame_history) = HistorySize
    /\ analysis.appended.frame_history[1] # analysis.appended.frame_history[HistorySize + 1]
    /\ analysis.appended.blink_history[1] # analysis.appended.blink_history[HistorySize + 1]

\* The values a frame's results report as score, confidence or anomaly.
ReportedValues ==
    IF analysis.liveness = None THEN {}
    ELSE LET l == analysis.liveness[1]
             d == analysis.deepfake[1]
         IN  {l.liveness_score, l.detections.blink, l.detections.head_movement,
              l.detections.mouth_open, d.deepfake_score}
             \cup {d.indicators[k] : k \in DOMAIN d.indicators}

\* C20: after any sequence of frames, every value the results of a frame
\* report as score, confidence or anomaly is between 0 and 1.
C20_ScoresInRange == \A v \in ReportedValues : 0 <= v /\ v <= 100

\* A frame after a full history: its temporal anomaly is 1, its blink
\* pattern and geometry anomalies are strictly between 0 and 1, and so is its
\* deepfake score, its blink confidence and its liveness score.
C20_Witness ==
    /\ analysis.liveness # None
    /\ analysis.liveness[1].detections.blink \in 1 .. 99
    /\ analysis.liveness[1].liveness_score \in 1 .. 99
    /\ LET d == analysis.deepfake[1]
       IN  /\ "temporal_anomaly" \in DOMAIN d.indicators
           /\ d.indicators["temporal_anomaly"] = 100
           /\ d.indicators["blink_pattern_anomaly"] \in 1 .. 99
           /\ d.deepfake_score \in 1 .. 99

\* C16: a session is created "active", its status is always "active" or
\* "completed", no session disappears, and no step takes a completed session
\* back to "active".
C16_SessionStatusMonotonic ==
    /\ [](\A sid \in DOMAIN active_sessions :
            active_sessions[sid].status \in {"active", "completed"})
    /\ [][ /\ \A sid \in DOMAIN active_sessions' \ DOMAIN active_sessions :
                active_sessions'[sid].status = "active"
           /\ \A sid \in DOMAIN active_sessions :
                /\ sid \in DOMAIN active_sessions'
                /\ active_sessions[sid].status = "completed"
                      => active_sessions'[sid].status = "completed" ]_vars

\* A completed session was sent a challenge and a frame after its completion
\* and is being completed again, while another session is active.
C16_Witness ==
    \E sid \in DOMAIN active_sessions, other \in DOMAIN active_sessions, t \in Threads :
        /\ active_sessions[sid].status = "completed"
        /\ active_sessions[sid].current_challenge # None
        /\ active_sessions[sid].verification_result # None
        /\ pc[t] = "return" /\ op[t].session_id = sid
        /\ result[t] # active_sessions[sid].verification_result
        /\ active_sessions[other].status = "active"

\* C17: a complete-session call on a session that is already completed
\* creates no alert and leaves the stored verification_result as it is.
C17_FinalizedOnce ==
    [][ \A t \in Threads :
            (/\ op[t].name = "evaluate_verification_result"
             /\ op[t].session_id \in DOMAIN active_sessions
             /\ active_sessions[op[t].session_id].status = "completed")
            => /\ Len(heap') = Len(heap)
               /\ alerts' = alerts
               /\ active_sessions'[op[t].session_id].verification_result
                     = active_sessions[op[t].session_id].verification_result ]_vars

\* C18: the scores a session's frames got are the scores detectors of its
\* own would have given them, whatever was uploaded to other sessions.
C18_SessionsIsolated ==
    \A sid \in DOMAIN active_sessions :
        active_sessions[sid].frame_analysis = isolated[sid].frame_analysis

\* The sum of a score over the frames from i on that a detector found a face
\* in, and the number of these frames.
RECURSIVE C19_Sum(_, _, _, _)
C19_Sum(frame_analysis, detector, score, i) ==
    IF i > Len(frame_analysis) THEN 0
    ELSE (IF frame_analysis[i][detector].face_detected
          THEN frame_analysis[i][detector][score] ELSE 0)
         + C19_Sum(frame_analysis, detector, score, i + 1)

C19_Count(frame_analysis, detector) ==
    Cardinality({i \in 1 .. Len(frame_analysis) : frame_analysis[i][detector].face_detected})

C19_Average(frame_analysis, detector, score) ==
    IF C19_Count(frame_analysis, detector) = 0 THEN 0
    ELSE C19_Sum(frame_analysis, detector, score, 1) \div C19_Count(frame_analysis, detector)

\* C19: the scores a completion passes to the adjudicator are the averages
\* over the frames with a face (0 when there is none), and its face_detected
\* says whether any frame has a face.
C19_AveragesOverFaces ==
    \A t \in Threads :
        (op[t].name = "evaluate_verification_result"
         /\ op[t].session_id \in DOMAIN active_sessions) =>
            LET frame_analysis == active_sessions[op[t].session_id].frame_analysis
            IN  /\ op[t].liveness_analysis.liveness_score
                      = C19_Average(frame_analysis, "liveness", "liveness_score")
                /\ op[t].deepfake_analysis.deepfake_score
                      = C19_Average(frame_analysis, "deepfake", "deepfake_score")
                /\ op[t].liveness_analysis.face_detected
                      = (C19_Count(frame_analysis, "liveness") > 0)
                /\ op[t].deepfake_analysis.face_detected
                      = (C19_Count(frame_analysis, "deepfake") > 0)

\* A session of three frames, the second without a face, is being completed:
\* its deepfake score is the average of the two frames with a face, which is
\* not the sum over three.
C19_Witness ==
    \E t \in Threads :
        /\ op[t].name = "evaluate_verification_result"
        /\ op[t].session_id \in DOMAIN active_sessions
        /\ LET frame_analysis == active_sessions[op[t].session_id].frame_analysis
           IN  /\ Len(frame_analysis) = 3
               /\ frame_analysis[1].deepfake.face_detected
               /\ ~ frame_analysis[2].deepfake.face_detected
               /\ frame_analysis[3].deepfake.face_detected
               /\ frame_analysis[1].deepfake.deepfake_score
                     # frame_analysis[3].deepfake.deepfake_score
               /\ op[t].deepfake_analysis.deepfake_score * 2
                     = frame_analysis[1].deepfake.deepfake_score
                       + frame_analysis[3].deepfake.deepfake_score
               /\ op[t].deepfake_analysis.face_detected

\* The requests C21 is about, as a thread keeps them: one that names a
\* session id no session has, or a challenge type that is no member name.
InvalidRequest(request, sessions) ==
    /\ request.name \in {"send_liveness_challenge", "upload_video_frame",
                          "complete_verification", "get_session_status"}
    /\ \/ request.session_id \notin DOMAIN sessions
       \/ /\ request.name = "send_liveness_challenge"
          /\ \/ request.challenge_type = None
             \/ upper(request.challenge_type[1]) \notin ChallengeTypeNames

\* C21: a request with an unknown session id or a malformed challenge type,
\* and an acknowledgement of an unknown alert id, is answered with 400 or 404
\* and changes no session, no detector, no alert, and not the queue.
C21_InvalidRequestRejected ==
    [][ /\ \A t \in Threads :
              (op'[t] # op[t] /\ InvalidRequest(op'[t], active_sessions)) =>
                  /\ result'[t] # None
                  /\ result'[t][1].code \in {400, 404}
                  /\ UNCHANGED << active_sessions, liveness_detector, deepfake_detector,
                                  heap, alerts, alert_queue >>
        /\ \A id \in AlertIds, who \in Operators :
              (acknowledge_alert(id, who) /\ StoredWithId(id) = {}) =>
                  /\ acknowledge_status(ack_result'.ret[1]) = 404
                  /\ UNCHANGED << active_sessions, liveness_detector, deepfake_detector,
                                  heap, alerts, alert_queue >> ]_vars

\* The largest distances an image can show: a centroid that goes from one
\* edge to the other, lips as far apart as the image is high.
FullFrame == 100

\* C22: the landmark coordinates process_frame hands to the head-movement
\* and mouth-open extractors are in the scale of the thresholds, so that the
\* two outcomes can happen: a face that crosses the whole image between two
\* landmark frames is reported as a movement, and lips that are the whole
\* image apart as an open mouth.
C22_ThresholdsInLandmarkScale ==
    [][ \A img \in DetectorFrames :
            (/\ analyse_frame(img)
             /\ liveness_detector.use_mediapipe
             /\ img.mesh # None) =>
                /\ img.mesh[1].mouth = FullFrame
                      => analysis'.liveness[1].detections.mouth_open > 0
                /\ (/\ liveness_detector.prev_frame_landmarks # None
                    /\ liveness_detector.prev_frame_landmarks[1].kind = "landmarks"
                    /\ Abs(img.mesh[1].centroid
                           - liveness_detector.prev_frame_landmarks[1].value) = FullFrame)
                      => analysis'.liveness[1].detections.head_movement > 0 ]_vars

\* C23: for every session, the frames kept in memory (the session's
\* video_frames and the frame history of the deepfake detector) are at most
\* history_size.
C23_FramesBounded ==
    \A sid \in DOMAIN active_sessions :
        Len(active_sessions[sid].video_frames) + Len(deepfake_detector.frame_history)
            <= deepfake_detector.history_size

\* Both detectors are as constructed and no frame went through them since.
JustReset ==
    /\ liveness_detector = LivenessDetector(liveness_detector.use_mediapipe)
    /\ deepfake_detector = DeepfakeDetector(deepfake_detector.history_size,
                                            deepfake_detector.use_mediapipe)

\* C24: reset() leaves a detector as its constructor does, after any frames
\* (no previous frame, empty histories, counters 0), and the frame after the
\* resets gets the results a new detector gives, with histories of at most
\* one entry.
C24_ResetRestoresInitialState ==
    [][ /\ liveness_detector_reset("t1") =>
              /\ liveness_detector'.prev_frame_landmarks = None
              /\ liveness_detector'.challenge_history = <<>>
              /\ liveness_detector'.blink_counter = 0
              /\ liveness_detector'.eye_closed_frames = 0
              /\ liveness_detector' = LivenessDetector(liveness_detector.use_mediapipe)
        /\ deepfake_detector_reset("t2") =>
              /\ deepfake_detector'.frame_history = <<>>
              /\ deepfake_detector'.blink_history = <<>>
              /\ deepfake_detector'.face_geometry_history = <<>>
              /\ deepfake_detector'.eye_gaze_history = <<>>
              /\ deepfake_detector' = DeepfakeDetector(deepfake_detector.history_size,
                                                       deepfake_detector.use_mediapipe)
        /\ \A img \in ResetFrames :
              (/\ analyse_frame(img)
               /\ op["t1"].name = "LivenessDetector.reset"
               /\ op["t2"].name = "DeepfakeDetector.reset"
               /\ JustReset) =>
                  /\ \A b \in HistoryBuffers : Len(deepfake_detector'[b]) <= 1
                  /\ analysis'.liveness[1].detections.head_movement
                        = IF liveness_detector.use_mediapipe /\ img.mesh # None
                          THEN 0 ELSE 20
                  /\ "temporal_anomaly" \in DOMAIN analysis'.deepfake[1].indicators
                        => analysis'.deepfake[1].indicators["temporal_anomaly"] = 0 ]_vars

\* The detector of app.py, whose histories were full, was reset, and so was
\* the liveness detector after it had a previous frame; a frame with
\* landmarks went through them since: each history has one entry.
C24_Witness ==
    /\ op["t1"].name = "LivenessDetector.reset"
    /\ op["t2"].name = "DeepfakeDetector.reset"
    /\ deepfake_detector.history_size = AppHistorySize
    /\ analysis.frames >= 2
    /\ \A b \in HistoryBuffers : Len(deepfake_detector[b]) = 1
    /\ liveness_detector.prev_frame_landmarks # None
    /\ analysis.liveness # None
    /\ analysis.liveness[1].detections.head_movement = 0

\* C25: on the first landmark frame the head-movement extractor stores the
\* landmarks and reports no movement with confidence 0; on every later one
\* it reports movement_detected = (displacement > 15.0) and confidence =
\* min(displacement / 15.0, 1), whatever the displacement.
C25_ConfidenceIsDisplacementRatio ==
    [][ \A landmarks \in HeadLandmarks :
            head_movement_call(landmarks) =>
                LET returned == analysis'.liveness[1]
                    previous == liveness_detector.prev_frame_landmarks
                    displacement == Abs(landmarks[1].centroid - previous[1].value)
                IN  /\ liveness_detector'.prev_frame_landmarks[1].value
                          = landmarks[1].centroid
                    /\ IF previous = None
                       THEN ~ returned.detected /\ returned.confidence = 0
                       ELSE /\ returned.detected = (displacement > MOVEMENT_THRESHOLD)
                            /\ returned.confidence
                                  = min((100 * displacement) \div MOVEMENT_THRESHOLD, 100)
      ]_vars

\* C26: with concurrent create_alert callers, any two alerts are in the
\* store in the order in which they were put on the queue, which is the order
\* the worker dispatches them in (a reference is the rank of the put).
C26_StoreOrderIsQueueOrder ==
    \A i \in 1 .. Len(alerts), j \in 1 .. Len(alerts) :
        i < j => alerts[i] < alerts[j]

\* What a frame leaves in the previous-frame slot when the extractor that
\* process_frame calls for it replaces the slot with the frame's data.
SlotOf(det, img) ==
    IF det.use_mediapipe /\ img.mesh # None
    THEN Some([kind |-> "landmarks", value |-> img.mesh[1].centroid])
    ELSE Some([kind |-> "gray", value |-> img.gray])

\* C27: whatever frames came before, with landmarks or without, the
\* extractor called for a frame replaces prev_frame_landmarks with that
\* frame's data, so that no extractor is left returning its error default
\* for every later frame.
C27_SlotAlwaysReplaced ==
    [][ \A img \in DetectorFrames :
            analyse_frame(img) =>
                liveness_detector'.prev_frame_landmarks = SlotOf(liveness_detector, img)
      ]_vars

\* The stored alerts of a session.
StoredFor(session_id) ==
    {i \in 1 .. Len(alerts) : heap[alerts[i]].session_id = session_id}

\* C28 as stated: when complete-session returns verified = true for a
\* session, the store holds no alert of that session, frame-level
\* FACE_NOT_DETECTED alerts included.
C28_PassedSessionHasNoAlert ==
    [][ \A t \in Threads :
            (complete_verification_return(t) /\ result[t][1].verified)
            => StoredFor(op[t].session_id) = {} ]_vars

\* C28: when complete-session returns verified = true (status PASSED), the
\* evaluation raised no alert: the result lists none, the average deepfake
\* score is at most 0.6, the average liveness score at least 0.5 and some
\* frame had a face. Alerts submit-frame created for frames without a face
\* are not counted by the verdict.
C28_PassedRaisedNoAlertInEvaluation ==
    [][ \A t \in Threads :
            (complete_verification_return(t) /\ result[t][1].verified)
            => /\ result[t][1].status = Some("PASSED")
               /\ result[t][1].alerts = <<>>
               /\ DeepfakeScoreOf(op[t]) <= 60
               /\ LivenessScoreOf(op[t]) >= 50
               /\ FaceDetectedOf(op[t]) ]_vars

\* A session whose first frame had no face and whose second had one is
\* completed as passed, with the FACE_NOT_DETECTED alert of the first frame
\* in the store.
C28_Witness ==
    \E sid \in DOMAIN active_sessions :
        /\ active_sessions[sid].status = "completed"
        /\ active_sessions[sid].verification_result # None
        /\ active_sessions[sid].verification_result[1].verified
        /\ Len(active_sessions[sid].frame_analysis) = 2
        /\ ~ active_sessions[sid].frame_analysis[1].liveness.face_detected
        /\ active_sessions[sid].frame_analysis[2].liveness.face_detected
        /\ \E i \in StoredFor(sid) :
              heap[alerts[i]].alert_type = "FACE_NOT_DETECTED"

\* The classifier on every score above the deepfake threshold, liveness
\* scores on both sides of each of its tests and every indicator map.
C29_ClassifierNeverLow ==
    \A d \in (thresholds.deepfake_score + 1) .. 100,
       l \in SevLiveness \cup {0, 100},
       ind \in IndicatorMaps \cup {EmptyDict} :
        determine_alert_severity(d, l, ind) \in {"MEDIUM", "HIGH", "CRITICAL"}

\* C29: a DEEPFAKE_DETECTED alert that evaluate_verification_result creates
\* is never of severity LOW: it is created only for a deepfake score above
\* 0.6, and the classifier returns MEDIUM, HIGH or CRITICAL for every such
\* score, whatever the liveness score and the indicators.
C29_DeepfakeAlertNeverLow ==
    /\ \A a \in 1 .. Len(heap) :
          heap[a].alert_type = "DEEPFAKE_DETECTED"
          => heap[a].severity \in {"MEDIUM", "HIGH", "CRITICAL"}
    /\ \A t \in Threads :
          (op[t].name = "evaluate_verification_result"
           /\ frame[t].alert_type = "DEEPFAKE_DETECTED")
          => /\ DeepfakeScoreOf(op[t]) > 60
             /\ frame[t].severity # "LOW"
    /\ C29_ClassifierNeverLow

\* A verification with a deepfake score just above the threshold and nothing
\* else wrong has created its DEEPFAKE_DETECTED alert, of severity MEDIUM.
C29_Witness ==
    \E t \in Threads, a \in 1 .. Len(heap) :
        /\ op[t].name = "evaluate_verification_result"
        /\ DeepfakeScoreOf(op[t]) = 61
        /\ LivenessScoreOf(op[t]) = 90
        /\ heap[a].alert_type = "DEEPFAKE_DETECTED"
        /\ heap[a].severity = "MEDIUM"
        /\ \E i \in 1 .. Len(alerts) : alerts[i] = a

\* The earliest-created of the stored alerts with an id: Alert objects are
\* numbered in the order of their construction.
C30_Earliest(alert_id) ==
    CHOOSE a \in StoredWithId(alert_id) : \A b \in StoredWithId(alert_id) : a <= b

====
